---- MODULE Spec2Model ----
(***************************************************************************)
(* Model of bot.py: a Telegram ordering bot.  A catalog tree is walked     *)
(* through inline menus, leaves are added to a per-user cart, an overlay   *)
(* (STOCK_CACHE, persisted in stock.json) marks leaves unavailable, and    *)
(* unavailable leaves lead to a reservation notice for the admins.         *)
(*                                                                         *)
(* Callback data and overlay keys are colon-joined strings in the code;    *)
(* here they are tuples of their segments (every segment a string, the     *)
(* indices too, as str(idx) makes them), so that split(":") is the         *)
(* identity on tuples and int() is the explicit conversion int_ below.     *)
(***************************************************************************)
EXTENDS Integers, Sequences, FiniteSets, Bags, TLC

\* ------------------------------------------------------------------ bounds
MaxCart == 2        \* lines a cart may hold before further adds are cut off
MaxTasks == 2       \* handler coroutines suspended at an await at one time
MaxStock == 2       \* entries STOCK_CACHE may hold

\* ------------------------------------------------------------------ users
ADMIN_IDS == <<1, 2>>
Users == {1, 2, 3}  \* the identities with a session: both admins and a customer
Actors == {1, 3}    \* the identities that send events where only one admin is needed

AdminSet == {ADMIN_IDS[i] : i \in DOMAIN ADMIN_IDS}

\* (mutation: the allow-list check passes for everyone)
is_admin_always(user_id) == TRUE
is_admin(user_id) == user_id \in AdminSet

\* ------------------------------------------------------------------ texts
\* A free-text message: either words, or three dash-separated numbers.
Words(w) == [kind |-> "words", w |-> w, y |-> 0, m |-> 0, d |-> 0]
Ymd(y, m, d) == [kind |-> "ymd", w |-> "", y |-> y, m |-> m, d |-> d]
None == [kind |-> "none", w |-> "", y |-> 0, m |-> 0, d |-> 0]

Texts == {Words("call me at 555"), Words("next week"),
          Ymd(2026, 1, 20), Ymd(2026, 2, 30), Ymd(2026, 13, 1)}

DaysIn(y, m) ==
    IF m \in {4, 6, 9, 11} THEN 30
    ELSE IF m = 2
         THEN (IF (y % 4 = 0 /\ y % 100 # 0) \/ y % 400 = 0 THEN 29 ELSE 28)
         ELSE 31

\* datetime.strptime(eta, "%Y-%m-%d") returns (TRUE) or raises ValueError (FALSE)
\* (mutation: only the shape is checked, not the calendar)
strptime_shape(text) == text.kind = "ymd"
strptime(text) ==
    /\ text.kind = "ymd"
    /\ text.y \in 1..9999
    /\ text.m \in 1..12
    /\ text.d \in 1..DaysIn(text.y, text.m)

\* ------------------------------------------------------------------ catalog
\* Prices are in thousandths of the currency unit.
CATALOG ==
  [categories |->
    [c1 |-> [title |-> "Pods",
             items |-> << [name |-> "A", price |-> 10000],
                          [name |-> "B", price |-> 5500] >>],
     c2 |-> [title |-> "Liquids",
             brands |->
               [b1 |-> [title |-> "Brand1",
                        items |-> << [name |-> "P", price |-> 1005],
                                     [name |-> "Q", price |-> 7000,
                                      items |-> << "mint" >>] >>],
                b2 |-> [title |-> "Brand2",
                        items |-> << [nicotine |-> "20mg", price |-> 3000,
                                      items |-> << "ice" >>] >>]]]]]

\* int(idx): the index, or -1 for a segment int() rejects (ValueError)
int_(s) == CASE s = "0" -> 0 [] s = "1" -> 1 [] s = "2" -> 2 [] s = "7" -> 7
             [] OTHER -> -1

\* seq[int(idx)] is defined (no IndexError); negative indices are not drawn
HasIdx(seq, s) == int_(s) >= 0 /\ int_(s) < Len(seq)
At(seq, s) == seq[int_(s) + 1]

HasCat(c) == c \in DOMAIN CATALOG.categories
Cat(c) == CATALOG.categories[c]
HasBrand(c, b) ==
    /\ HasCat(c)
    /\ "brands" \in DOMAIN Cat(c)
    /\ b \in DOMAIN Cat(c).brands
Brand(c, b) == Cat(c).brands[b]

item_key(parts) == parts

\* ------------------------------------------------------------------ keys
NoKey == <<>>
Keys == { <<"cat", "c1", "0">>, <<"cat", "c1", "1">>,
          <<"brand", "c2", "b1", "0">>, <<"brand", "c2", "b1", "1">>,
          <<"flv", "c2", "b1", "1", "0">>, <<"nic", "c2", "b2", "0", "0">>,
          <<"cat", "c1", "7">> }

\* ------------------------------------------------------------------ state
VARIABLES
    user_data,      \* context.user_data of every user: city, pending markers, cart
    STOCK_CACHE,    \* the in-memory overlay: key -> [in_stock, eta]
    STOCK_DIRTY,    \* set by stock_set, cleared by a successful save
    stock_file,     \* what STOCK_PATH holds
    USER_LOCKS,     \* per user: no lock yet, an unlocked lock, a locked lock
    tasks,          \* bag of handler coroutines suspended at an await
    last            \* what the step just taken was, and what it sent

vars == <<user_data, STOCK_CACHE, STOCK_DIRTY, stock_file, USER_LOCKS, tasks, last>>

\* ------------------------------------------------------------------ overlay
EmptyCache == [k \in {} |-> [in_stock |-> TRUE, eta |-> None]]

stock_get(cache, key) ==
    IF key \in DOMAIN cache THEN cache[key] ELSE [in_stock |-> TRUE, eta |-> None]

\* (mutations: the entry stays out of stock; every entry is overwritten)
stock_set_out(cache, key, in_stock, eta) ==
    [k \in DOMAIN cache \cup {key} |->
        IF k = key THEN [in_stock |-> FALSE, eta |-> eta] ELSE cache[k]]
stock_set_all(cache, key, in_stock, eta) ==
    [k \in DOMAIN cache \cup {key} |-> [in_stock |-> in_stock, eta |-> eta]]
\* (mutation: an entry set without a date keeps the date it had)
stock_set_stale(cache, key, in_stock, eta) ==
    [k \in DOMAIN cache \cup {key} |->
        IF k = key
        THEN [in_stock |-> in_stock,
              eta |-> IF eta = None /\ key \in DOMAIN cache THEN cache[key].eta ELSE eta]
        ELSE cache[k]]
stock_set(cache, key, in_stock, eta) ==
    [k \in DOMAIN cache \cup {key} |->
        IF k = key THEN [in_stock |-> in_stock, eta |-> eta] ELSE cache[k]]

\* The file after write_text raised part-way: untouched, or truncated.
Torn == [state |-> "torn", data |-> EmptyCache]
File(cache) == [state |-> "ok", data |-> cache]

\* (mutation: the flag is cleared without the file being written)
save_stock_cache_forget(cache, dirty, wrote) ==
    IF ~dirty
    THEN /\ wrote = "none"
         /\ stock_file' = stock_file
         /\ STOCK_DIRTY' = FALSE
    ELSE \/ /\ wrote = "ok"
            /\ stock_file' = stock_file
            /\ STOCK_DIRTY' = FALSE
         \/ /\ wrote = "fail"
            /\ stock_file' \in {stock_file, Torn}
            /\ STOCK_DIRTY' = TRUE

\* save_stock_cache() with the cache and dirty flag it finds; wrote is what
\* happened: "none" (not dirty), "ok", or "fail" (write_text raised, logged).
save_stock_cache(cache, dirty, wrote) ==
    IF ~dirty
    THEN /\ wrote = "none"
         /\ stock_file' = stock_file
         /\ STOCK_DIRTY' = FALSE
    ELSE \/ /\ wrote = "ok"
            /\ stock_file' = File(cache)
            /\ STOCK_DIRTY' = FALSE
         \/ /\ wrote = "fail"
            /\ stock_file' \in {stock_file, Torn}
            /\ STOCK_DIRTY' = TRUE

\* ------------------------------------------------------------------ lookup
NoPrice == -1

NotFound(key) == [title |-> key, price |-> NoPrice]

\* it.get("name", key), it.get("price") of a dict item
GetName(it, dflt) == IF "name" \in DOMAIN it THEN <<it.name>> ELSE dflt
GetPrice(it) == IF "price" \in DOMAIN it THEN it.price ELSE NoPrice

resolve_item_by_key(key) ==
    IF key = <<>> THEN NotFound(key)
    ELSE CASE key[1] = "cat" ->
            IF /\ Len(key) = 3
               /\ HasCat(key[2])
               /\ "items" \in DOMAIN Cat(key[2])
               /\ HasIdx(Cat(key[2]).items, key[3])
            THEN LET it == At(Cat(key[2]).items, key[3])
                 IN [title |-> GetName(it, key), price |-> GetPrice(it)]
            ELSE NotFound(key)
         [] key[1] = "brand" ->
            IF /\ Len(key) = 4
               /\ HasBrand(key[2], key[3])
               /\ HasIdx(Brand(key[2], key[3]).items, key[4])
            THEN LET it == At(Brand(key[2], key[3]).items, key[4])
                 IN [title |-> GetName(it, key), price |-> GetPrice(it)]
            ELSE NotFound(key)
         [] key[1] = "nic" ->
            IF /\ Len(key) = 5
               /\ HasBrand(key[2], key[3])
               /\ HasIdx(Brand(key[2], key[3]).items, key[4])
               /\ "items" \in DOMAIN At(Brand(key[2], key[3]).items, key[4])
               /\ HasIdx(At(Brand(key[2], key[3]).items, key[4]).items, key[5])
            THEN LET brand == Brand(key[2], key[3])
                     block == At(brand.items, key[4])
                     flavor == At(block.items, key[5])
                     nic == IF "nicotine" \in DOMAIN block
                            THEN block.nicotine ELSE "None"
                 IN [title |-> <<brand.title, nic, flavor>>,
                     price |-> GetPrice(block)]
            ELSE NotFound(key)
         [] key[1] = "flv" ->
            IF /\ Len(key) = 5
               /\ HasBrand(key[2], key[3])
               /\ HasIdx(Brand(key[2], key[3]).items, key[4])
               /\ "items" \in DOMAIN At(Brand(key[2], key[3]).items, key[4])
               /\ HasIdx(At(Brand(key[2], key[3]).items, key[4]).items, key[5])
            THEN LET brand == Brand(key[2], key[3])
                     parent == At(brand.items, key[4])
                     fl == At(parent.items, key[5])
                 IN [title |-> GetName(parent, <<brand.title>>) \o <<fl>>,
                     price |-> GetPrice(parent)]
            ELSE NotFound(key)
         [] OTHER -> NotFound(key)

\* ------------------------------------------------------------------ sessions
\* user_data after clear(): no city, no pending marker, no cart
EmptyData == [city |-> None, awaiting_city |-> FALSE, reserve_key |-> NoKey,
              awaiting_eta_key |-> NoKey, cart |-> <<>>]

NoItem == [title |-> <<>>, price |-> NoPrice, eta |-> None]

\* The record of a step: handler, user, callback data, message text, outcome,
\* the item named in the reply, the keyboard rendered, the notices attempted
\* (reservation or order, one per recipient), the outcome of the store write,
\* and for an add whether it had waited behind an add of the same callback data.
Step(h, u, arg, text, out) ==
    [h |-> h, u |-> u, arg |-> arg, text |-> text, out |-> out,
     item |-> NoItem, kb |-> <<>>, notices |-> <<>>, wrote |-> "none", dup |-> FALSE]

\* (mutation: one user_data shared by all users)
Set_all(u, field, val) == [v \in Users |-> [user_data[v] EXCEPT ![field] = val]]
Set(u, field, val) == [user_data EXCEPT ![u][field] = val]

\* ------------------------------------------------------------------ start, city
\* /start
start(u) ==
    /\ user_data' = [user_data EXCEPT ![u] = EmptyData]
    /\ last' = Step("start", u, <<>>, None, "city_menu")
    /\ UNCHANGED <<STOCK_CACHE, STOCK_DIRTY, stock_file, USER_LOCKS, tasks>>

\* city:<city>
city_callback_handler(u, city) ==
    /\ IF city = "OTHER"
       THEN /\ user_data' = Set(u, "awaiting_city", TRUE)
            /\ last' = Step("city", u, <<"city", city>>, None, "ask_city")
       ELSE /\ user_data' = Set(u, "city", Words(city))
            /\ last' = Step("city", u, <<"city", city>>, None, "main_menu")
    /\ UNCHANGED <<STOCK_CACHE, STOCK_DIRTY, stock_file, USER_LOCKS, tasks>>

\* ------------------------------------------------------------------ reserve
\* reserve:<key>
reserve_handler(u, key) ==
    /\ user_data' = Set(u, "reserve_key", key)
    /\ last' = [Step("reserve", u, <<"reserve">> \o key, None, "ask_contact")
                  EXCEPT !.item = [title |-> resolve_item_by_key(key).title,
                                   price |-> resolve_item_by_key(key).price,
                                   eta |-> stock_get(STOCK_CACHE, key).eta]]
    /\ UNCHANGED <<STOCK_CACHE, STOCK_DIRTY, stock_file, USER_LOCKS, tasks>>

\* ------------------------------------------------------------------ free text
\* The reservation notice for one admin; ok is whether send_message returned.
ReservationNotice(to, u, key, text, failed) ==
    [to |-> to, kind |-> "reservation", from |-> u,
     city |-> user_data[u].city,
     title |-> resolve_item_by_key(key).title,
     price |-> resolve_item_by_key(key).price,
     eta |-> stock_get(STOCK_CACHE, key).eta,
     lines |-> <<>>, total |-> 0, body |-> text, ok |-> to \notin failed]

\* text_router, branch awaiting_eta_key
text_eta(u, text, W) ==
    LET key == user_data[u].awaiting_eta_key IN
    IF ~is_admin(u)
    THEN /\ user_data' = Set(u, "awaiting_eta_key", NoKey)
         /\ last' = Step("text", u, <<>>, text, "dropped")
         /\ UNCHANGED <<STOCK_CACHE, STOCK_DIRTY, stock_file>>
    ELSE IF ~strptime(text)
    THEN /\ last' = Step("text", u, <<>>, text, "format_error")
         /\ UNCHANGED <<user_data, STOCK_CACHE, STOCK_DIRTY, stock_file>>
    ELSE /\ Cardinality(DOMAIN STOCK_CACHE \cup {key}) <= MaxStock
         /\ STOCK_CACHE' = stock_set(STOCK_CACHE, key, FALSE, text)
         /\ \E wrote \in W :
              /\ save_stock_cache(STOCK_CACHE', TRUE, wrote)
              /\ last' = [Step("text", u, key, text, "eta_set")
                            EXCEPT !.wrote = wrote,
                                   !.item = [title |-> resolve_item_by_key(key).title,
                                             price |-> resolve_item_by_key(key).price,
                                             eta |-> text]]
         /\ user_data' = Set(u, "awaiting_eta_key", NoKey)

\* text_router, branch reserve_key: one send per admin, failures logged
text_reserve(u, text) ==
    LET key == user_data[u].reserve_key IN
    /\ user_data' = Set(u, "reserve_key", NoKey)
    /\ \E failed \in SUBSET AdminSet :
         last' = [Step("text", u, key, text, "reserved")
                    EXCEPT !.notices = [i \in DOMAIN ADMIN_IDS |->
                             ReservationNotice(ADMIN_IDS[i], u, key, text, failed)],
                           !.item = [title |-> resolve_item_by_key(key).title,
                                     price |-> resolve_item_by_key(key).price,
                                     eta |-> stock_get(STOCK_CACHE, key).eta]]
    /\ UNCHANGED <<STOCK_CACHE, STOCK_DIRTY, stock_file>>

\* text_router, branch awaiting_city
text_city(u, text) ==
    /\ user_data' = [user_data EXCEPT ![u].city = text, ![u].awaiting_city = FALSE]
    /\ last' = Step("text", u, <<>>, text, "main_menu")
    /\ UNCHANGED <<STOCK_CACHE, STOCK_DIRTY, stock_file>>

\* (mutation: a text outside every pending mode is answered with the main menu)
text_router_greets(u, text, W) ==
    /\ IF user_data[u].awaiting_eta_key # NoKey THEN text_eta(u, text, W)
       ELSE IF user_data[u].reserve_key # NoKey THEN text_reserve(u, text)
       ELSE IF user_data[u].awaiting_city THEN text_city(u, text)
       ELSE /\ last' = Step("text", u, <<>>, text, "main_menu")
            /\ UNCHANGED <<user_data, STOCK_CACHE, STOCK_DIRTY, stock_file>>
    /\ UNCHANGED <<USER_LOCKS, tasks>>

\* a text message that is no command; W: the outcomes a store write may have
text_router(u, text, W) ==
    /\ IF user_data[u].awaiting_eta_key # NoKey THEN text_eta(u, text, W)
       ELSE IF user_data[u].reserve_key # NoKey THEN text_reserve(u, text)
       ELSE IF user_data[u].awaiting_city THEN text_city(u, text)
       ELSE /\ last' = Step("text", u, <<>>, text, "nothing")
            /\ UNCHANGED <<user_data, STOCK_CACHE, STOCK_DIRTY, stock_file>>
    /\ UNCHANGED <<USER_LOCKS, tasks>>

\* ------------------------------------------------------------------ admin toggle
\* admin_toggle:<key>; W: the outcomes a store write may have
admin_toggle(u, key, W) ==
    /\ IF ~is_admin(u)
       THEN /\ last' = Step("admin_toggle", u, <<"admin_toggle">> \o key, None, "denied")
            /\ UNCHANGED <<user_data, STOCK_CACHE, STOCK_DIRTY, stock_file>>
       ELSE IF stock_get(STOCK_CACHE, key).in_stock
       THEN /\ Cardinality(DOMAIN STOCK_CACHE \cup {key}) <= MaxStock
            /\ user_data' = Set(u, "awaiting_eta_key", key)
            /\ last' = [Step("admin_toggle", u, <<"admin_toggle">> \o key, None, "ask_eta")
                          EXCEPT !.item = [title |-> resolve_item_by_key(key).title,
                                           price |-> resolve_item_by_key(key).price,
                                           eta |-> None]]
            /\ UNCHANGED <<STOCK_CACHE, STOCK_DIRTY, stock_file>>
       ELSE /\ STOCK_CACHE' = stock_set(STOCK_CACHE, key, TRUE, None)
            /\ \E wrote \in W :
                 /\ save_stock_cache(STOCK_CACHE', TRUE, wrote)
                 /\ last' = [Step("admin_toggle", u, <<"admin_toggle">> \o key, None,
                                  "now_available")
                               EXCEPT !.wrote = wrote,
                                      !.item = [title |-> resolve_item_by_key(key).title,
                                                price |-> resolve_item_by_key(key).price,
                                                eta |-> None]]
            /\ UNCHANGED user_data
    /\ UNCHANGED <<USER_LOCKS, tasks>>

\* ------------------------------------------------------------------ menus
\* str(idx) of an enumerate() index
str_(i) == CASE i = 0 -> "0" [] i = 1 -> "1" [] i = 2 -> "2" [] OTHER -> "7"

\* the iteration order of cat["brands"].items()
BrandOrder(c) == IF c = "c2" THEN <<"b1", "b2">> ELSE <<>>

Button(name, mark, eta, cb) == [name |-> name, mark |-> mark, eta |-> eta, cb |-> cb]

\* One leaf button: the add token when the overlay says in stock, else the
\* reserve token with the key and the recorded ETA as suffix.
\* (mutation: the overlay is not consulted)
LeafButton_add_only(cache, name, key, addcb) == Button(name, "yes", None, addcb)
LeafButton(cache, name, key, addcb) ==
    LET st == stock_get(cache, key) IN
    IF st.in_stock
    THEN Button(name, "yes", None, addcb)
    ELSE Button(name, "no", st.eta, <<"reserve">> \o key)

IsNicBlock(first) == "nicotine" \in DOMAIN first /\ "items" \in DOMAIN first
HasFlavors(it) == "items" \in DOMAIN it /\ Len(it.items) > 0

\* the keyboard of category_handler, without the back button
CategoryKeyboard(cache, c) ==
    IF "brands" \in DOMAIN Cat(c)
    THEN [i \in DOMAIN BrandOrder(c) |->
            Button(<<Cat(c).brands[BrandOrder(c)[i]].title>>, "", None,
                   <<"brand", c, BrandOrder(c)[i]>>)]
    ELSE [i \in DOMAIN Cat(c).items |->
            LeafButton(cache, <<Cat(c).items[i].name>>,
                       item_key(<<"cat", c, str_(i - 1)>>), <<"add", c, str_(i - 1)>>)]

\* the keyboard of brand_handler, without the cart and back buttons
BrandKeyboard(cache, c, b) ==
    LET items == Brand(c, b).items IN
    IF items = <<>> THEN <<>>
    ELSE IF IsNicBlock(items[1])
    THEN [i \in DOMAIN items |->
            Button(<<items[i].nicotine>>, "", None, <<"nic", c, b, str_(i - 1)>>)]
    ELSE IF "name" \notin DOMAIN items[1]
    THEN [i \in DOMAIN items |->
            Button(<<items[i]>>, "", None, <<"addb", c, b, str_(i - 1)>>)]
    ELSE [i \in DOMAIN items |->
            LET key == item_key(<<"brand", c, b, str_(i - 1)>>) IN
            IF ~stock_get(cache, key).in_stock
            THEN LeafButton(cache, <<items[i].name>>, key, <<>>)
            ELSE IF HasFlavors(items[i])
            THEN Button(<<items[i].name>>, "yes", None, <<"flavors", c, b, str_(i - 1)>>)
            ELSE LeafButton(cache, <<items[i].name>>, key, <<"addb", c, b, str_(i - 1)>>)]

\* the keyboard of flavors_handler: the key is built from int(parent_idx)
FlavorsKeyboard(cache, c, b, pidx) ==
    LET flavors == At(Brand(c, b).items, pidx).items IN
    [i \in DOMAIN flavors |->
        LeafButton(cache, <<flavors[i]>>,
                   item_key(<<"flv", c, b, str_(int_(pidx)), str_(i - 1)>>),
                   <<"addf", c, b, str_(int_(pidx)), str_(i - 1)>>)]

\* the keyboard of nicotine_handler: the key is built from block_idx as received
NicotineKeyboard(cache, c, b, bidx) ==
    LET flavors == At(Brand(c, b).items, bidx).items IN
    [i \in DOMAIN flavors |->
        LeafButton(cache, <<flavors[i]>>,
                   item_key(<<"nic", c, b, bidx, str_(i - 1)>>),
                   <<"addn", c, b, bidx, str_(i - 1)>>)]

Render(h, u, arg, out, kb) ==
    /\ last' = [Step(h, u, arg, None, out) EXCEPT !.kb = kb]
    /\ UNCHANGED <<user_data, STOCK_CACHE, STOCK_DIRTY, stock_file, USER_LOCKS, tasks>>

\* callback "start": the main menu
show_main_menu_handler(u) == Render("main_menu", u, <<"start">>, "main_menu", <<>>)

\* callback "catalog"
catalog_menu(u) == Render("catalog", u, <<"catalog">>, "menu", <<>>)

\* category:<cat_key>
category_handler(u, c) ==
    IF ~HasCat(c)
    THEN Render("category", u, <<"category", c>>, "not_found", <<>>)
    ELSE Render("category", u, <<"category", c>>, "menu", CategoryKeyboard(STOCK_CACHE, c))

\* brand:<cat_key>:<brand_key>
brand_handler(u, c, b) ==
    IF ~HasBrand(c, b)
    THEN Render("brand", u, <<"brand", c, b>>, "not_found", <<>>)
    ELSE Render("brand", u, <<"brand", c, b>>, "menu", BrandKeyboard(STOCK_CACHE, c, b))

\* flavors:<cat_key>:<brand_key>:<parent_idx>
flavors_handler(u, c, b, pidx) ==
    IF int_(pidx) < 0
    THEN Render("flavors", u, <<"flavors", c, b, pidx>>, "fault", <<>>)
    ELSE IF ~(HasBrand(c, b) /\ HasIdx(Brand(c, b).items, pidx))
    THEN Render("flavors", u, <<"flavors", c, b, pidx>>, "error", <<>>)
    ELSE IF ~HasFlavors(At(Brand(c, b).items, pidx))
    THEN Render("flavors", u, <<"flavors", c, b, pidx>>, "no_flavors", <<>>)
    ELSE Render("flavors", u, <<"flavors", c, b, pidx>>, "menu",
                FlavorsKeyboard(STOCK_CACHE, c, b, pidx))

\* nic:<cat_key>:<brand_key>:<block_idx>: the lookups are not guarded
nicotine_handler(u, c, b, bidx) ==
    IF ~(/\ HasBrand(c, b)
         /\ HasIdx(Brand(c, b).items, bidx)
         /\ "items" \in DOMAIN At(Brand(c, b).items, bidx))
    THEN Render("nic", u, <<"nic", c, b, bidx>>, "fault", <<>>)
    ELSE Render("nic", u, <<"nic", c, b, bidx>>, "menu",
                NicotineKeyboard(STOCK_CACHE, c, b, bidx))

\* ------------------------------------------------------------------ cart
get_cart(u) == user_data[u].cart

RECURSIVE SumPrices(_)
SumPrices(cart) == IF cart = <<>> THEN 0 ELSE cart[1].price + SumPrices(Tail(cart))

\* round(x, 2) on thousandths: to the nearest hundredth, a tie to the even one
Round2(x) ==
    LET q == x \div 10
        r == x % 10
    IN IF r < 5 THEN q * 10
       ELSE IF r > 5 THEN (q + 1) * 10
       ELSE IF q % 2 = 0 THEN q * 10 ELSE (q + 1) * 10

\* (mutation: the total is the price of the last line)
cart_total_last(cart) == Round2(cart[Len(cart)].price)
\* (mutation: every line is rounded before it is summed)
RECURSIVE SumRounded(_)
SumRounded(cart) ==
    IF cart = <<>> THEN 0 ELSE Round2(cart[1].price) + SumRounded(Tail(cart))
cart_total_per_line(cart) == SumRounded(cart)
cart_total(cart) == Round2(SumPrices(cart))

\* fmt_price: "{:g}" keeps six significant digits, so an amount is shown to
\* the thousandth below 1000, to the hundredth below 10000, to the tenth
\* below 100000 and to the unit above (a tie to the even digit)
fmt_price(p) ==
    LET unit == IF p < 1000000 THEN 1
                ELSE IF p < 10000000 THEN 10
                ELSE IF p < 100000000 THEN 100 ELSE 1000
        q == p \div unit
        r == (p % unit) * 2
    IN IF r < unit THEN q * unit
       ELSE IF r > unit THEN (q + 1) * unit
       ELSE IF q % 2 = 0 THEN q * unit ELSE (q + 1) * unit

\* A handler coroutine suspended at an await.
NoOrder == [lines |-> <<>>, total |-> 0, city |-> None]
Task(h, u, pc, arg) ==
    [h |-> h, u |-> u, pc |-> pc, arg |-> arg, dup |-> FALSE, i |-> 0, order |-> NoOrder]

Running == BagToSet(tasks)
Spawn(t) == tasks' = tasks (+) SetToBag({t})
Finish(t) == tasks' = tasks (-) SetToBag({t})
Move(t, t2) == tasks' = (tasks (-) SetToBag({t})) (+) SetToBag({t2})
CanSuspend == BagCardinality(tasks) < MaxTasks

\* What the try block of add_to_cart_handler finds for the callback data:
\* the line to append, or ok = FALSE when a lookup raises.
NoLine == [ok |-> FALSE, name |-> <<>>, price |-> 0]
AddLookup(parts) ==
    CASE parts[1] = "add" ->
            IF /\ Len(parts) = 3
               /\ HasCat(parts[2])
               /\ "items" \in DOMAIN Cat(parts[2])
               /\ HasIdx(Cat(parts[2]).items, parts[3])
            THEN LET item == At(Cat(parts[2]).items, parts[3])
                 IN [ok |-> TRUE, name |-> <<item.name>>, price |-> item.price]
            ELSE NoLine
      [] parts[1] = "addb" ->
            IF /\ Len(parts) = 4
               /\ HasBrand(parts[2], parts[3])
               /\ HasIdx(Brand(parts[2], parts[3]).items, parts[4])
               /\ "name" \in DOMAIN At(Brand(parts[2], parts[3]).items, parts[4])
            THEN LET item == At(Brand(parts[2], parts[3]).items, parts[4])
                 IN [ok |-> TRUE, name |-> <<item.name>>, price |-> item.price]
            ELSE NoLine
      [] parts[1] = "addn" ->
            IF /\ Len(parts) = 5
               /\ HasBrand(parts[2], parts[3])
               /\ HasIdx(Brand(parts[2], parts[3]).items, parts[4])
               /\ "items" \in DOMAIN At(Brand(parts[2], parts[3]).items, parts[4])
               /\ HasIdx(At(Brand(parts[2], parts[3]).items, parts[4]).items, parts[5])
            THEN LET brand == Brand(parts[2], parts[3])
                     block == At(brand.items, parts[4])
                     nic == IF "nicotine" \in DOMAIN block
                            THEN block.nicotine ELSE "None"
                 IN [ok |-> TRUE,
                     name |-> <<brand.title, nic, At(block.items, parts[5])>>,
                     price |-> block.price]
            ELSE NoLine
      [] parts[1] = "addf" ->
            IF /\ Len(parts) = 5
               /\ HasBrand(parts[2], parts[3])
               /\ HasIdx(Brand(parts[2], parts[3]).items, parts[4])
               /\ "items" \in DOMAIN At(Brand(parts[2], parts[3]).items, parts[4])
               /\ HasIdx(At(Brand(parts[2], parts[3]).items, parts[4]).items, parts[5])
            THEN LET brand == Brand(parts[2], parts[3])
                     parent == At(brand.items, parts[4])
                 IN [ok |-> TRUE,
                     name |-> GetName(parent, <<brand.title>>)
                                \o <<At(parent.items, parts[5])>>,
                     price |-> parent.price]
            ELSE NoLine
      [] OTHER -> NoLine

\* the overlay key of the leaf an add token names
TokenKey(parts) ==
    CASE parts[1] = "add" -> <<"cat">> \o Tail(parts)
      [] parts[1] = "addb" -> <<"brand">> \o Tail(parts)
      [] parts[1] = "addn" -> <<"nic">> \o Tail(parts)
      [] parts[1] = "addf" -> <<"flv">> \o Tail(parts)

\* (mutation: one lock for all users)
Locked_any(u) == \E v \in Users : USER_LOCKS[v] = "locked"

\* get_user_lock(user_id).locked()
Locked(u) == USER_LOCKS[u] = "locked"

\* The body under "async with lock", up to the await of the reply: the lock is
\* taken, the line appended (or the lookup fails), and the coroutine stays
\* suspended on the confirmation (or error) message, holding the lock.
\* (mutation: a leaf the overlay marks out of stock is refused)
AddBody_in_stock(u, parts, dup) ==
    LET r == IF stock_get(STOCK_CACHE, TokenKey(parts)).in_stock
             THEN AddLookup(parts) ELSE NoLine
    IN
    /\ USER_LOCKS' = [USER_LOCKS EXCEPT ![u] = "locked"]
    /\ IF r.ok
       THEN /\ Len(get_cart(u)) < MaxCart
            /\ user_data' = Set(u, "cart",
                                Append(get_cart(u), [name |-> r.name, price |-> r.price]))
            /\ last' = [Step("add", u, parts, None, "appended")
                          EXCEPT !.item = [title |-> r.name, price |-> r.price,
                                           eta |-> None],
                                 !.dup = dup]
       ELSE /\ user_data' = user_data
            /\ last' = Step("add", u, parts, None, "failed")
    /\ UNCHANGED <<STOCK_CACHE, STOCK_DIRTY, stock_file>>
\* (mutation: the line is put in front of the cart)
AddBody_front(u, parts, dup) ==
    LET r == AddLookup(parts) IN
    /\ USER_LOCKS' = [USER_LOCKS EXCEPT ![u] = "locked"]
    /\ IF r.ok
       THEN /\ Len(get_cart(u)) < MaxCart
            /\ user_data' = Set(u, "cart",
                                <<[name |-> r.name, price |-> r.price]>> \o get_cart(u))
            /\ last' = [Step("add", u, parts, None, "appended")
                          EXCEPT !.item = [title |-> r.name, price |-> r.price,
                                           eta |-> None],
                                 !.dup = dup]
       ELSE /\ user_data' = user_data
            /\ last' = Step("add", u, parts, None, "failed")
    /\ UNCHANGED <<STOCK_CACHE, STOCK_DIRTY, stock_file>>
AddBody(u, parts, dup) ==
    LET r == AddLookup(parts) IN
    /\ USER_LOCKS' = [USER_LOCKS EXCEPT ![u] = "locked"]
    /\ IF r.ok
       THEN /\ Len(get_cart(u)) < MaxCart
            /\ user_data' = Set(u, "cart",
                                Append(get_cart(u), [name |-> r.name, price |-> r.price]))
            /\ last' = [Step("add", u, parts, None, "appended")
                          EXCEPT !.item = [title |-> r.name, price |-> r.price,
                                           eta |-> None],
                                 !.dup = dup]
       ELSE /\ user_data' = user_data
            /\ last' = Step("add", u, parts, None, "failed")
    /\ UNCHANGED <<STOCK_CACHE, STOCK_DIRTY, stock_file>>

\* add:/addb:/addn:/addf: arriving.  A locked lock gets the "wait" answer and
\* the coroutine then waits for the lock; an unlocked one is taken at once.
add_to_cart_handler(u, parts) ==
    /\ CanSuspend
    /\ IF Locked(u)
       THEN /\ Spawn([Task("add", u, "acquire", parts) EXCEPT !.dup =
                        \E h \in Running : /\ h.h = "add" /\ h.u = u
                                           /\ h.pc = "confirm" /\ h.arg = parts])
            /\ last' = Step("add", u, parts, None, "wait")
            /\ UNCHANGED <<user_data, STOCK_CACHE, STOCK_DIRTY, stock_file, USER_LOCKS>>
       ELSE /\ AddBody(u, parts, FALSE)
            /\ Spawn(Task("add", u, IF AddLookup(parts).ok THEN "confirm" ELSE "error",
                          parts))

\* a waiting add gets the lock once it is free
add_acquire(t) ==
    /\ t.h = "add" /\ t.pc = "acquire"
    /\ ~Locked(t.u)
    /\ AddBody(t.u, t.arg, t.dup)
    /\ Move(t, [t EXCEPT !.pc = IF AddLookup(t.arg).ok THEN "confirm" ELSE "error"])

\* (mutation: a failed add is confirmed like any other)
add_reply_confirms_all(t) ==
    /\ t.h = "add" /\ t.pc \in {"confirm", "error"}
    /\ USER_LOCKS' = [USER_LOCKS EXCEPT ![t.u] = "unlocked"]
    /\ Finish(t)
    /\ last' = Step("add", t.u, t.arg, None, "confirmed")
    /\ UNCHANGED <<user_data, STOCK_CACHE, STOCK_DIRTY, stock_file>>
\* (mutation: the lock stays held after the error message)
add_reply_error_holds(t) ==
    /\ t.h = "add" /\ t.pc \in {"confirm", "error"}
    /\ USER_LOCKS' = [USER_LOCKS EXCEPT ![t.u] =
                        IF t.pc = "error" THEN "locked" ELSE "unlocked"]
    /\ Finish(t)
    /\ last' = Step("add", t.u, t.arg, None,
                    IF t.pc = "confirm" THEN "confirmed" ELSE "error_sent")
    /\ UNCHANGED <<user_data, STOCK_CACHE, STOCK_DIRTY, stock_file>>

\* the confirmation (or the error message) has been sent: the lock is released
add_reply(t) ==
    /\ t.h = "add" /\ t.pc \in {"confirm", "error"}
    /\ USER_LOCKS' = [USER_LOCKS EXCEPT ![t.u] = "unlocked"]
    /\ Finish(t)
    /\ last' = Step("add", t.u, t.arg, None,
                    IF t.pc = "confirm" THEN "confirmed" ELSE "error_sent")
    /\ UNCHANGED <<user_data, STOCK_CACHE, STOCK_DIRTY, stock_file>>

\* what cart_view_handler sends: the empty-cart text, or the lines and the total
CartView(h, u, arg) ==
    IF get_cart(u) = <<>>
    THEN Step(h, u, arg, None, "cart_empty")
    ELSE [Step(h, u, arg, None, "cart_shown") EXCEPT !.notices =
            << [to |-> u, kind |-> "view", from |-> u, city |-> None, title |-> <<>>,
                price |-> NoPrice, eta |-> None, lines |-> get_cart(u),
                total |-> fmt_price(cart_total(get_cart(u))), body |-> None,
                ok |-> TRUE] >>]

\* callback "cart"
cart_view_handler(u) ==
    /\ last' = CartView("cart", u, <<"cart">>)
    /\ UNCHANGED <<user_data, STOCK_CACHE, STOCK_DIRTY, stock_file, USER_LOCKS, tasks>>

\* kb_main(): the catalog and the cart
kb_main == << Button(<<"Catalog">>, "", None, <<"catalog">>),
              Button(<<"Cart">>, "", None, <<"cart">>) >>

\* (mutation: the first line is popped)
remove_one_handler_first(u) ==
    /\ IF get_cart(u) = <<>>
       THEN /\ last' = [Step("remove_one", u, <<"remove_one">>, None, "empty")
                          EXCEPT !.kb = kb_main]
            /\ UNCHANGED <<user_data, tasks>>
       ELSE /\ CanSuspend
            /\ user_data' = Set(u, "cart", Tail(get_cart(u)))
            /\ Spawn(Task("remove_one", u, "view", <<"remove_one">>))
            /\ last' = [Step("remove_one", u, <<"remove_one">>, None, "removed")
                          EXCEPT !.item = [title |-> get_cart(u)[1].name,
                                           price |-> get_cart(u)[1].price,
                                           eta |-> None]]
    /\ UNCHANGED <<STOCK_CACHE, STOCK_DIRTY, stock_file, USER_LOCKS>>

\* callback "remove_one": the last line is popped, then two awaits follow
remove_one_handler(u) ==
    /\ IF get_cart(u) = <<>>
       THEN /\ last' = [Step("remove_one", u, <<"remove_one">>, None, "empty")
                          EXCEPT !.kb = kb_main]
            /\ UNCHANGED <<user_data, tasks>>
       ELSE /\ CanSuspend
            /\ user_data' = Set(u, "cart", SubSeq(get_cart(u), 1, Len(get_cart(u)) - 1))
            /\ Spawn(Task("remove_one", u, "view", <<"remove_one">>))
            /\ last' = [Step("remove_one", u, <<"remove_one">>, None, "removed")
                          EXCEPT !.item = [title |-> get_cart(u)[Len(get_cart(u))].name,
                                           price |-> get_cart(u)[Len(get_cart(u))].price,
                                           eta |-> None]]
    /\ UNCHANGED <<STOCK_CACHE, STOCK_DIRTY, stock_file, USER_LOCKS>>

\* remove_one_handler's closing cart_view_handler call
remove_view(t) ==
    /\ t.h = "remove_one" /\ t.pc = "view"
    /\ last' = CartView("remove_one", t.u, t.arg)
    /\ Finish(t)
    /\ UNCHANGED <<user_data, STOCK_CACHE, STOCK_DIRTY, stock_file, USER_LOCKS>>

\* get_courier_chat_id(city): 101, 102, 103 stand for the three chat ids
get_courier_chat_id(city) ==
    IF city = Words("Leipzig") THEN 101
    ELSE IF city = Words("Dresden") THEN 102
    ELSE 103

\* the order goes to every admin, then to the courier of the city
Recipients(city) == ADMIN_IDS \o <<get_courier_chat_id(city)>>

\* callback "checkout": the order text is built from the cart, then one
\* send_message per recipient is awaited
checkout_handler(u) ==
    /\ IF get_cart(u) = <<>>
       THEN /\ last' = [Step("checkout", u, <<"checkout">>, None, "empty")
                          EXCEPT !.kb = kb_main]
            /\ UNCHANGED tasks
       ELSE /\ CanSuspend
            /\ Spawn([Task("checkout", u, "send", <<"checkout">>) EXCEPT
                        !.i = 1,
                        !.order = [lines |-> get_cart(u),
                                   total |-> fmt_price(cart_total(get_cart(u))),
                                   city |-> user_data[u].city]])
            /\ last' = Step("checkout", u, <<"checkout">>, None, "order_built")
    /\ UNCHANGED <<user_data, STOCK_CACHE, STOCK_DIRTY, stock_file, USER_LOCKS>>

\* (mutation: a send that raises ends the handler)
checkout_send_stop(t) ==
    /\ t.h = "checkout" /\ t.pc = "send"
    /\ \E ok \in BOOLEAN :
         /\ last' = [Step("checkout", t.u, t.arg, None,
                          IF ~ok THEN "fault"
                          ELSE IF t.i < Len(Recipients(t.order.city)) THEN "notified"
                          ELSE "order_placed")
                       EXCEPT !.notices =
                         << [to |-> Recipients(t.order.city)[t.i], kind |-> "order",
                             from |-> t.u, city |-> t.order.city, title |-> <<>>,
                             price |-> NoPrice, eta |-> None, lines |-> t.order.lines,
                             total |-> t.order.total, body |-> None, ok |-> ok] >>]
         /\ IF ~ok
            THEN Finish(t) /\ UNCHANGED user_data
            ELSE IF t.i < Len(Recipients(t.order.city))
            THEN /\ Move(t, [t EXCEPT !.i = t.i + 1])
                 /\ UNCHANGED user_data
            ELSE /\ Finish(t)
                 /\ user_data' = Set(t.u, "cart", <<>>)
    /\ UNCHANGED <<STOCK_CACHE, STOCK_DIRTY, stock_file, USER_LOCKS>>

\* one send_message of the fan-out returns or raises (logged); after the
\* last one the cart is dropped and the customer gets the confirmation
checkout_send(t) ==
    /\ t.h = "checkout" /\ t.pc = "send"
    /\ \E ok \in BOOLEAN :
         last' = [Step("checkout", t.u, t.arg, None,
                       IF t.i < Len(Recipients(t.order.city)) THEN "notified"
                       ELSE "order_placed")
                    EXCEPT !.notices =
                      << [to |-> Recipients(t.order.city)[t.i], kind |-> "order",
                          from |-> t.u, city |-> t.order.city, title |-> <<>>,
                          price |-> NoPrice, eta |-> None, lines |-> t.order.lines,
                          total |-> t.order.total, body |-> None, ok |-> ok] >>]
    /\ IF t.i < Len(Recipients(t.order.city))
       THEN /\ Move(t, [t EXCEPT !.i = t.i + 1])
            /\ UNCHANGED user_data
       ELSE /\ Finish(t)
            /\ user_data' = Set(t.u, "cart", <<>>)
    /\ UNCHANGED <<STOCK_CACHE, STOCK_DIRTY, stock_file, USER_LOCKS>>

\* ------------------------------------------------------------------ admin walk
\* One line of the admin lists: the mark, the ETA shown only when out of
\* stock, and the toggle token that carries the key.
AdminButton(cache, name, key) ==
    LET st == stock_get(cache, key) IN
    Button(name, IF st.in_stock THEN "yes" ELSE "no",
           IF ~st.in_stock THEN st.eta ELSE None, <<"admin_toggle">> \o key)

\* the categories of /admin and admin_back
AdminRoot == <<Button(<<"Pods">>, "", None, <<"admin_cat", "c1">>),
               Button(<<"Liquids">>, "", None, <<"admin_cat", "c2">>)>>

Denied(h, u, arg) ==
    /\ last' = Step(h, u, arg, None, "denied")
    /\ UNCHANGED <<user_data, STOCK_CACHE, STOCK_DIRTY, stock_file, USER_LOCKS, tasks>>

\* /admin
admin_cmd(u) ==
    IF ~is_admin(u) THEN Denied("admin", u, <<"admin">>)
    ELSE Render("admin", u, <<"admin">>, "menu", AdminRoot)

\* admin_back
admin_back(u) ==
    IF ~is_admin(u) THEN Denied("admin_back", u, <<"admin_back">>)
    ELSE Render("admin_back", u, <<"admin_back">>, "menu", AdminRoot)

\* admin_cat:<cat_key>
admin_cat(u, c) ==
    IF ~is_admin(u) THEN Denied("admin_cat", u, <<"admin_cat", c>>)
    ELSE IF ~HasCat(c) THEN Render("admin_cat", u, <<"admin_cat", c>>, "not_found", <<>>)
    ELSE IF "brands" \in DOMAIN Cat(c)
    THEN Render("admin_cat", u, <<"admin_cat", c>>, "menu",
                [i \in DOMAIN BrandOrder(c) |->
                    Button(<<Cat(c).brands[BrandOrder(c)[i]].title>>, "", None,
                           <<"admin_brand", c, BrandOrder(c)[i]>>)])
    ELSE Render("admin_cat", u, <<"admin_cat", c>>, "menu",
                [i \in DOMAIN Cat(c).items |->
                    AdminButton(STOCK_CACHE, <<Cat(c).items[i].name>>,
                                item_key(<<"cat", c, str_(i - 1)>>))])

\* the items of admin_brand that are dicts with a name, in order
RECURSIVE NamedFrom(_, _, _, _, _)
NamedFrom(cache, c, b, items, i) ==
    IF i > Len(items) THEN <<>>
    ELSE (IF "name" \in DOMAIN items[i]
          THEN <<AdminButton(cache, <<items[i].name>>,
                             item_key(<<"brand", c, b, str_(i - 1)>>))>>
          ELSE <<>>) \o NamedFrom(cache, c, b, items, i + 1)

\* admin_brand:<cat_key>:<brand_key>: the category lookup is not guarded
admin_brand(u, c, b) ==
    IF ~is_admin(u) THEN Denied("admin_brand", u, <<"admin_brand", c, b>>)
    ELSE IF ~(HasCat(c) /\ "brands" \in DOMAIN Cat(c))
    THEN Render("admin_brand", u, <<"admin_brand", c, b>>, "fault", <<>>)
    ELSE IF ~HasBrand(c, b)
    THEN Render("admin_brand", u, <<"admin_brand", c, b>>, "not_found", <<>>)
    ELSE IF Brand(c, b).items = <<>>
    THEN Render("admin_brand", u, <<"admin_brand", c, b>>, "no_items", <<>>)
    ELSE IF IsNicBlock(Brand(c, b).items[1])
    THEN Render("admin_brand", u, <<"admin_brand", c, b>>, "menu",
                [i \in DOMAIN Brand(c, b).items |->
                    Button(<<Brand(c, b).items[i].nicotine>>, "", None,
                           <<"admin_block", c, b, str_(i - 1)>>)])
    ELSE Render("admin_brand", u, <<"admin_brand", c, b>>, "menu",
                NamedFrom(STOCK_CACHE, c, b, Brand(c, b).items, 1))

\* admin_block:<cat_key>:<brand_key>:<block_idx>: the lookups are not guarded
admin_block(u, c, b, bidx) ==
    IF ~is_admin(u) THEN Denied("admin_block", u, <<"admin_block", c, b, bidx>>)
    ELSE IF ~(HasBrand(c, b) /\ HasIdx(Brand(c, b).items, bidx))
    THEN Render("admin_block", u, <<"admin_block", c, b, bidx>>, "fault", <<>>)
    ELSE LET block == At(Brand(c, b).items, bidx)
             flavors == IF "items" \in DOMAIN block THEN block.items ELSE <<>>
         IN Render("admin_block", u, <<"admin_block", c, b, bidx>>, "menu",
                   [i \in DOMAIN flavors |->
                       AdminButton(STOCK_CACHE, <<flavors[i]>>,
                                   item_key(<<"nic", c, b, bidx, str_(i - 1)>>))])

\* ------------------------------------------------------------------ behaviours
Init ==
    /\ user_data = [u \in Users |-> EmptyData]
    /\ STOCK_CACHE = EmptyCache
    /\ STOCK_DIRTY = FALSE
    /\ stock_file = [state |-> "missing", data |-> EmptyCache]
    /\ USER_LOCKS = [u \in Users |-> "none"]
    /\ tasks = EmptyBag
    /\ last = Step("init", 0, <<>>, None, "started")

\* the callback data events are drawn from: what the menus render, and data
\* naming a category, brand or index the catalog does not have
Cities == {"Berlin", "OTHER"}
NavData == { <<"category", "c1">>, <<"category", "c2">>, <<"category", "zz">>,
             <<"brand", "c2", "b1">>, <<"brand", "c2", "b2">>, <<"brand", "c2", "zz">>,
             <<"brand", "c1", "b1">>,
             <<"flavors", "c2", "b1", "1">>, <<"flavors", "c2", "b1", "0">>,
             <<"flavors", "c2", "b1", "7">>, <<"flavors", "c2", "b1", "x">>,
             <<"flavors", "c2", "b2", "0">>,
             <<"nic", "c2", "b2", "0">>, <<"nic", "c2", "b2", "7">>,
             <<"nic", "c2", "b1", "1">>, <<"nic", "c2", "b1", "0">>,
             <<"nic", "zz", "b1", "0">> }
AdminData == { <<"admin_cat", "c1">>, <<"admin_cat", "c2">>, <<"admin_cat", "zz">>,
               <<"admin_brand", "c2", "b1">>, <<"admin_brand", "c2", "b2">>,
               <<"admin_brand", "c2", "zz">>, <<"admin_brand", "c1", "b1">>,
               <<"admin_block", "c2", "b2", "0">>, <<"admin_block", "c2", "b2", "7">>,
               <<"admin_block", "c2", "b1", "1">> }

\* main(): the CallbackQueryHandler patterns, for the menus
Navigate(u, D) ==
    \/ show_main_menu_handler(u)
    \/ catalog_menu(u)
    \/ cart_view_handler(u)
    \/ \E d \in D : d[1] = "category" /\ category_handler(u, d[2])
    \/ \E d \in D : d[1] = "brand" /\ brand_handler(u, d[2], d[3])
    \/ \E d \in D : d[1] = "flavors" /\ flavors_handler(u, d[2], d[3], d[4])
    \/ \E d \in D : d[1] = "nic" /\ nicotine_handler(u, d[2], d[3], d[4])

\* main(): /admin and the CallbackQueryHandler patterns of the admin walk
AdminWalk(u, D) ==
    \/ admin_cmd(u)
    \/ admin_back(u)
    \/ \E d \in D : d[1] = "admin_cat" /\ admin_cat(u, d[2])
    \/ \E d \in D : d[1] = "admin_brand" /\ admin_brand(u, d[2], d[3])
    \/ \E d \in D : d[1] = "admin_block" /\ admin_block(u, d[2], d[3], d[4])

\* the store write succeeds / may also raise
Healthy == {"ok"}
Faulty == {"ok", "fail"}

Customers == Users \ AdminSet

\* resuming a suspended coroutine
Resume(t) ==
    \/ add_acquire(t)
    \/ add_reply(t)
    \/ remove_view(t)
    \/ checkout_send(t)

\* Pending modes and overlay editing: both users, one catalog leaf and one
\* key that is not in the catalog, a contact text, a date and a non-date.
PKeys == { <<"cat", "c1", "0">>, <<"cat", "c1", "7">> }
PTexts == { Words("call me at 555"), Ymd(2026, 1, 20), Ymd(2026, 2, 30) }
PAdminData == { <<"admin_cat", "c1">>, <<"admin_brand", "c2", "b2">>,
                <<"admin_block", "c2", "b2", "0">> }

Next ==
    \E u \in Actors :
        \/ start(u)
        \/ \E city \in Cities : u \in Customers /\ city_callback_handler(u, city)
        \/ \E key \in PKeys : reserve_handler(u, key)
        \/ \E text \in PTexts : text_router(u, text, Healthy)
        \/ \E key \in PKeys : admin_toggle(u, key, Healthy)
        \/ show_main_menu_handler(u)
        \/ catalog_menu(u)
        \/ cart_view_handler(u)
        \/ AdminWalk(u, PAdminData)

Spec == Init /\ [][Next]_vars

\* Carts: both users, a leaf of the flat category and an index out of range.
AddTokens == { <<"add", "c1", "0">>, <<"add", "c1", "7">> }

NextCart ==
    \/ \E u \in Actors :
        \/ start(u)
        \/ \E parts \in AddTokens : add_to_cart_handler(u, parts)
        \/ remove_one_handler(u)
        \/ checkout_handler(u)
        \/ cart_view_handler(u)
    \/ \E t \in Running : Resume(t)

SpecCart == Init /\ [][NextCart]_vars

\* Orders: a customer fills the cart from the two leaves of the flat
\* category, views it, removes from it and checks out.
OrderTokens == { <<"add", "c1", "0">>, <<"add", "c1", "1">> }

NextOrder ==
    \/ \E u \in Customers :
        \/ \E parts \in OrderTokens : add_to_cart_handler(u, parts)
        \/ remove_one_handler(u)
        \/ checkout_handler(u)
        \/ cart_view_handler(u)
    \/ \E t \in Running : Resume(t)

SpecOrder == Init /\ [][NextOrder]_vars

\* Adding: a customer taps the add token of a leaf of each kind, and one whose
\* flavour index is out of range.
AllAddTokens == { <<"add", "c1", "0">>, <<"addb", "c2", "b1", "0">>,
                  <<"addn", "c2", "b2", "0", "0">>, <<"addf", "c2", "b1", "1", "0">>,
                  <<"addn", "c2", "b2", "0", "7">> }

NextAdd ==
    \/ \E u \in Customers :
        \/ \E parts \in AllAddTokens : add_to_cart_handler(u, parts)
        \/ cart_view_handler(u)
    \/ \E t \in Running : add_acquire(t) \/ add_reply(t)

SpecAdd == Init /\ [][NextAdd]_vars

\* Fan-out: a customer fills the cart, checks out, and asks for a reservation;
\* every send to an admin or courier may raise.
FanTexts == { Words("call me at 555") }
FanTokens == { <<"add", "c1", "0">> }

NextFan ==
    \/ \E u \in Customers :
        \/ \E parts \in FanTokens : add_to_cart_handler(u, parts)
        \/ checkout_handler(u)
        \/ \E key \in PKeys : reserve_handler(u, key)
        \/ \E text \in FanTexts : text_router(u, text, Healthy)
    \/ \E t \in Running : Resume(t)

SpecFan == Init /\ [][NextFan]_vars

\* Stale buttons: the admin marks the leaves of the flat category, the
\* customer opens the category and taps add tokens, which may have been
\* rendered before the admin's change.
StaleKeys == { <<"cat", "c1", "0">>, <<"cat", "c1", "1">> }
StaleDates == { Ymd(2026, 1, 20) }

NextStale ==
    \/ \E u \in AdminSet \cap Actors :
        \/ \E key \in StaleKeys : admin_toggle(u, key, Healthy)
        \/ \E text \in StaleDates : text_router(u, text, Healthy)
    \/ \E u \in Customers :
        \/ category_handler(u, "c1")
        \/ \E parts \in OrderTokens : add_to_cart_handler(u, parts)
    \/ \E t \in Running : add_acquire(t) \/ add_reply(t)

SpecStale == Init /\ [][NextStale]_vars

\* Two users adding: each taps add tokens, one that resolves and one that
\* does not.
NextPair ==
    \/ \E u \in Actors, parts \in AddTokens : add_to_cart_handler(u, parts)
    \/ \E t \in Running : add_acquire(t) \/ add_reply(t)

SpecPair == Init /\ [][NextPair]_vars

\* Two sessions: the customer picks a city, asks for a reservation and adds
\* to the cart; the other user sends every kind of event.
IsoCities == { "Leipzig" }
IsoKeys == { <<"cat", "c1", "0">> }

NextIso ==
    \/ \E u \in Customers :
        \/ \E city \in IsoCities : city_callback_handler(u, city)
        \/ \E key \in IsoKeys : reserve_handler(u, key)
        \/ \E parts \in FanTokens : add_to_cart_handler(u, parts)
    \/ \E u \in Actors \ Customers :
        \/ start(u)
        \/ \E parts \in FanTokens : add_to_cart_handler(u, parts)
        \/ remove_one_handler(u)
        \/ checkout_handler(u)
        \/ \E key \in IsoKeys : reserve_handler(u, key)
        \/ \E text \in FanTexts : text_router(u, text, Healthy)
    \/ \E t \in Running : Resume(t)

SpecIso == Init /\ [][NextIso]_vars

\* Waiting for the lock: a customer taps add tokens (two resolve, one does
\* not) and resets the session with /start; every send returns, and
\* asyncio.Lock wakes its waiters in turn.  A button is not tapped again while
\* a tap of it still waits for the lock, and, the cart being bounded, not while
\* the waiting taps would fill it.
Waiters(u) == { t \in Running : t.h = "add" /\ t.u = u /\ t.pc = "acquire" }
CanTap(u, parts) ==
    /\ \A t \in Waiters(u) : t.arg # parts
    /\ AddLookup(parts).ok =>
          Len(get_cart(u)) + Cardinality({ t \in Waiters(u) : AddLookup(t.arg).ok })
             < MaxCart

LiveTokens == AddTokens \cup OrderTokens

\* a send returns; the waiting tap of a button gets the lock
SendReturns == \E t \in Running : add_reply(t)
LockGranted(parts) == \E t \in Running : t.arg = parts /\ add_acquire(t)

NextLive ==
    \/ \E u \in Customers :
        \/ start(u)
        \/ \E parts \in LiveTokens : CanTap(u, parts) /\ add_to_cart_handler(u, parts)
    \/ \E t \in Running : add_acquire(t) \/ add_reply(t)

SpecLive ==
    /\ Init /\ [][NextLive]_vars
    /\ WF_vars(SendReturns)
    /\ \A parts \in LiveTokens : SF_vars(LockGranted(parts))

\* Rendering: the admin marks leaves of every kind, the customer walks the menus.
NavKeys == Keys \ { <<"cat", "c1", "7">> }
NavTexts == { Ymd(2026, 1, 20), Words("next week") }

NextNav ==
    \/ \E u \in AdminSet \cap Actors :
        \/ \E key \in NavKeys : admin_toggle(u, key, Healthy)
        \/ \E text \in NavTexts : text_router(u, text, Healthy)
    \/ \E u \in Customers : Navigate(u, NavData)

SpecNav == Init /\ [][NextNav]_vars

\* Overlay editing with a store whose write may raise: the admin toggles and
\* sends dates, the customer opens the flat category and asks for a reservation.
NextEta ==
    \/ \E u \in AdminSet \cap Actors :
        \/ start(u)
        \/ \E key \in PKeys : admin_toggle(u, key, Faulty)
        \/ \E text \in PTexts : text_router(u, text, Faulty)
    \/ \E u \in Customers :
        \/ category_handler(u, "c1")
        \/ \E key \in PKeys : admin_toggle(u, key, Faulty)

SpecEta == Init /\ [][NextEta]_vars

\* ------------------------------------------------------------------ startup
\* stock.json as main() may find it: beside a missing file and a file a write
\* completed, text json.loads rejects and JSON that is not an object.
Unparsable == [state |-> "unparsable", data |-> EmptyCache]
NotMapping == [state |-> "list", data |-> EmptyCache]

\* (mutation: a store that cannot be used blocks the leaves it could name)
load_stock_cache_block(file) ==
    IF file.state = "ok" THEN file.data
    ELSE [k \in { <<"cat", "c1", "0">> } |-> [in_stock |-> FALSE, eta |-> None]]

\* load_stock_cache(): {} when the file is missing, when reading or parsing
\* raises, and when the parsed value is not a dict; the parsed dict otherwise.
load_stock_cache(file) ==
    IF file.state = "missing" THEN EmptyCache
    ELSE IF file.state \in {"torn", "unparsable"} THEN EmptyCache
    ELSE IF file.state = "list" THEN EmptyCache
    ELSE file.data

BootFiles == { [state |-> "missing", data |-> EmptyCache], Unparsable, NotMapping, Torn,
               File(EmptyCache),
               File(stock_set(EmptyCache, <<"cat", "c1", "0">>, FALSE, Ymd(2026, 1, 20))) }

\* the process starts on any of these files
InitBoot ==
    /\ stock_file \in BootFiles
    /\ STOCK_CACHE = load_stock_cache(stock_file)
    /\ STOCK_DIRTY = FALSE
    /\ user_data = [u \in Users |-> EmptyData]
    /\ USER_LOCKS = [u \in Users |-> "none"]
    /\ tasks = EmptyBag
    /\ last = Step("init", 0, <<>>, None, "started")

\* main() run again after the process stopped (possibly in the middle of a
\* write): module state is fresh, the overlay is what the file gives
main ==
    /\ STOCK_CACHE' = load_stock_cache(stock_file)
    /\ STOCK_DIRTY' = FALSE
    /\ user_data' = [u \in Users |-> EmptyData]
    /\ USER_LOCKS' = [u \in Users |-> "none"]
    /\ tasks' = EmptyBag
    /\ last' = Step("main", 0, <<>>, None, "started")
    /\ UNCHANGED stock_file

BootData == { <<"category", "c1">>, <<"brand", "c2", "b1">>,
              <<"flavors", "c2", "b1", "1">>, <<"nic", "c2", "b2", "0">> }
BootTexts == { Ymd(2026, 1, 20), Ymd(2026, 2, 30) }

NextBoot ==
    \/ main
    \/ \E u \in AdminSet \cap Actors :
        \/ \E key \in PKeys : admin_toggle(u, key, Faulty)
        \/ \E text \in BootTexts : text_router(u, text, Faulty)
    \/ \E u \in Customers : Navigate(u, BootData)

SpecBoot == InitBoot /\ [][NextBoot]_vars

\* Two admins edit the same leaf while a customer shops: both ADMIN_IDS toggle
\* and send the date, the customer navigates, adds, removes, checks out, asks
\* for a reservation and writes text.
TwoKeys == { <<"cat", "c1", "0">> }
TwoTexts == { Ymd(2026, 1, 20) }
TwoTokens == { <<"add", "c1", "0">> }

NextTwo ==
    \/ \E u \in AdminSet :
        \/ \E key \in TwoKeys : admin_toggle(u, key, Healthy)
        \/ \E text \in TwoTexts : text_router(u, text, Healthy)
    \/ \E u \in Customers :
        \/ category_handler(u, "c1")
        \/ \E parts \in TwoTokens : add_to_cart_handler(u, parts)
        \/ remove_one_handler(u)
        \/ checkout_handler(u)
        \/ \E key \in TwoKeys : reserve_handler(u, key)
        \/ \E text \in FanTexts : text_router(u, text, Healthy)
    \/ \E t \in Running : Resume(t)

SpecTwo == Init /\ [][NextTwo]_vars

\* The admin walk beside the customer's menus: the admin follows the buttons
\* of /admin down to the lists of toggles, toggles and sends the date; the
\* customer opens the menus that list leaves.
WalkData == { <<"admin_cat", "c1">>, <<"admin_cat", "c2">>,
              <<"admin_brand", "c2", "b1">>, <<"admin_brand", "c2", "b2">>,
              <<"admin_block", "c2", "b2", "0">> }

NextWalk ==
    \/ \E u \in AdminSet \cap Actors :
        \/ AdminWalk(u, WalkData)
        \/ \E key \in Keys : admin_toggle(u, key, Healthy)
        \/ \E text \in StaleDates : text_router(u, text, Healthy)
    \/ \E u \in Customers : Navigate(u, BootData)

SpecWalk == Init /\ [][NextWalk]_vars

\* ------------------------------------------------------------------ claims
\* C1 (checked under SpecCart): an add-to-cart that arrived while an add of the
\* same callback data for the same user held the user's lock, suspended on its
\* confirmation (so the first line is already in the cart), appends no second
\* line: the double tap leaves the cart grown by one line, not two.
C1_DoubleTapAppendsOnce ==
    ~(last.h = "add" /\ last.out = "appended" /\ last.dup)

\* The cart operations of user u that are between their start and their end:
\* an add inside the locked region, a remove-one before its closing cart view,
\* a checkout during its fan-out.  An add still waiting for the lock is not counted.
InProgress(u) ==
    { t \in Running : /\ t.u = u
                      /\ \/ t.h = "add" /\ t.pc \in {"confirm", "error"}
                         \/ t.h = "remove_one"
                         \/ t.h = "checkout" }

MenuHandlers == {"main_menu", "catalog", "cart", "category", "brand", "flavors",
                 "nic", "add", "remove_one", "checkout"}

\* C3: a menu action abandons a pending reservation: the free text a user
\* sends right after one of their menu actions dispatches no reservation notice.
C3_MenuActionAbandonsReservation ==
    [][ (last.h \in MenuHandlers /\ last'.h = "text" /\ last'.u = last.u)
            => (last'.out # "reserved" /\ last'.notices = <<>>) ]_vars

\* the pending markers present in the session of u
Pending(u) ==
    (IF user_data[u].awaiting_city THEN {"awaiting_city"} ELSE {})
    \cup (IF user_data[u].reserve_key # NoKey THEN {"reserve_key"} ELSE {})
    \cup (IF user_data[u].awaiting_eta_key # NoKey THEN {"awaiting_eta_key"} ELSE {})

\* C4: in every reachable state every session holds at most one of the
\* markers awaiting_city, reserve_key and awaiting_eta_key.
C4_AtMostOnePendingMode ==
    \A u \in Users : Cardinality(Pending(u)) <= 1

\* the reservation notice text_router must send to admin number i for key
ExpectedNotice(i, u, key, n) ==
    /\ n.to = ADMIN_IDS[i]
    /\ n.kind = "reservation"
    /\ n.from = u
    /\ n.title = resolve_item_by_key(key).title
    /\ n.price = resolve_item_by_key(key).price
    /\ n.eta = stock_get(STOCK_CACHE, key).eta

\* C5: while reserve_key is set in a session, the next free text of that
\* session sends exactly one reservation notice to each admin, naming the key's
\* resolved title and price and the ETA of the overlay, and clears reserve_key;
\* a free text of another session leaves the marker alone and sends no notice
\* for it.
C5_NextTextSendsReservation ==
    [][ \A u \in Users :
          (user_data[u].reserve_key # NoKey /\ last'.h = "text") =>
             IF last'.u = u
             THEN /\ last'.out = "reserved"
                  /\ Len(last'.notices) = Len(ADMIN_IDS)
                  /\ \A i \in DOMAIN ADMIN_IDS :
                        ExpectedNotice(i, u, user_data[u].reserve_key, last'.notices[i])
                  /\ user_data'[u].reserve_key = NoKey
             ELSE /\ user_data'[u].reserve_key = user_data[u].reserve_key
                  /\ \A i \in DOMAIN last'.notices : last'.notices[i].from # u ]_vars

\* C6: a step taken for a user outside the admin list changes neither the
\* overlay in memory nor the stored one, and leaves that user without
\* awaiting_eta_key.
C6_OnlyAdminsEditOverlay ==
    [][ last'.u \notin AdminSet =>
          /\ STOCK_CACHE' = STOCK_CACHE
          /\ STOCK_DIRTY' = STOCK_DIRTY
          /\ stock_file' = stock_file
          /\ \A u \in Users \ AdminSet : user_data'[u].awaiting_eta_key = NoKey ]_vars

\* a user outside the admin list has tried the toggle while the overlay has entries
C6_Witness ==
    /\ last.u \notin AdminSet
    /\ last.h = "admin_toggle"
    /\ last.out = "denied"
    /\ STOCK_CACHE # EmptyCache

\* The button a menu must show for the leaf with overlay key `key` whose add
\* token is `addcb`: in stock, the add token, and that token resolves to the
\* very item the key names; out of stock, the reserve token with the key, and
\* the ETA suffix exactly when the overlay records one.
ShowsLeaf(btn, key, addcb) ==
    IF key \notin DOMAIN STOCK_CACHE \/ STOCK_CACHE[key].in_stock
    THEN /\ btn.cb = addcb
         /\ btn.eta = None
         /\ AddLookup(btn.cb).ok
         /\ AddLookup(btn.cb).name = resolve_item_by_key(key).title
         /\ AddLookup(btn.cb).price = resolve_item_by_key(key).price
    ELSE /\ btn.cb = <<"reserve">> \o key
         /\ btn.eta = STOCK_CACHE[key].eta

\* the leaf key and add token of button i of a menu rendered for callback data d
LeafKey(d, i) ==
    CASE d[1] = "category" -> <<"cat", d[2], str_(i - 1)>>
      [] d[1] = "brand" -> <<"brand", d[2], d[3], str_(i - 1)>>
      [] d[1] = "flavors" -> <<"flv", d[2], d[3], d[4], str_(i - 1)>>
      [] d[1] = "nic" -> <<"nic", d[2], d[3], d[4], str_(i - 1)>>
LeafAdd(d, i) ==
    CASE d[1] = "category" -> <<"add", d[2], str_(i - 1)>>
      [] d[1] = "brand" -> <<"addb", d[2], d[3], str_(i - 1)>>
      [] d[1] = "flavors" -> <<"addf", d[2], d[3], d[4], str_(i - 1)>>
      [] d[1] = "nic" -> <<"addn", d[2], d[3], d[4], str_(i - 1)>>

\* the children of the node callback data d opens, and whether they are leaves
\* (a category of brands and a brand of nicotine blocks list containers)
Children(d) ==
    CASE d[1] = "category" ->
            IF "items" \in DOMAIN Cat(d[2]) THEN Cat(d[2]).items ELSE <<>>
      [] d[1] = "brand" ->
            IF IsNicBlock(Brand(d[2], d[3]).items[1]) THEN <<>>
            ELSE Brand(d[2], d[3]).items
      [] d[1] \in {"flavors", "nic"} -> At(Brand(d[2], d[3]).items, d[4]).items

\* C7 (checked under SpecNav): a rendered flat category, brand, nested-flavour
\* or nicotine-flavour menu shows every leaf by the overlay as it is at that
\* moment: the add token of the leaf when in stock, the reserve token with the
\* leaf's key and the recorded ETA when not.  A brand item that has flavours is
\* a container: in stock it opens its flavours menu, out of stock it is
\* reserved under its own key.
C7_MenusFollowOverlay ==
    [][ (last'.h \in {"category", "brand", "flavors", "nic"} /\ last'.out = "menu") =>
          LET d == last'.arg
              kb == last'.kb
          IN /\ Len(kb) >= Len(Children(d))
             /\ \A i \in DOMAIN Children(d) :
                  IF /\ d[1] = "brand"
                     /\ HasFlavors(Children(d)[i])
                     /\ stock_get(STOCK_CACHE', LeafKey(d, i)).in_stock
                  THEN kb[i].cb = <<"flavors", d[2], d[3], str_(i - 1)>>
                  ELSE ShowsLeaf(kb[i], LeafKey(d, i), LeafAdd(d, i)) ]_vars

\* a flavours menu was rendered with its flavour out of stock and an ETA shown
C7_Witness ==
    /\ last.h = "flavors" /\ last.out = "menu"
    /\ last.kb[1].cb = <<"reserve", "flv", "c2", "b1", "1", "0">>
    /\ last.kb[1].eta = Ymd(2026, 1, 20)
    /\ \E k \in DOMAIN STOCK_CACHE : STOCK_CACHE[k].in_stock

\* texts that are dates of the calendar, and texts that are not
GoodDates == { Ymd(2026, 1, 20) }
BadDates == { Words("call me at 555"), Words("next week"),
              Ymd(2026, 2, 30), Ymd(2026, 13, 1) }

\* the store write was attempted, and where it succeeded the file holds the
\* overlay and the dirty flag is down
Flushed(step) ==
    /\ step.wrote \in {"ok", "fail"}
    /\ step.wrote = "ok" => (stock_file' = File(STOCK_CACHE') /\ ~STOCK_DIRTY')

OthersKept(key) ==
    /\ DOMAIN STOCK_CACHE' = DOMAIN STOCK_CACHE \cup {key}
    /\ \A k \in DOMAIN STOCK_CACHE : k # key => STOCK_CACHE'[k] = STOCK_CACHE[k]

\* C8 (checked under SpecEta): an admin's toggle of a leaf that is in stock
\* puts awaiting_eta_key = key on that admin and changes neither the overlay
\* nor the file, so the customer's menu still shows the add token of a leaf
\* while the admin is being asked for its date; a key in stock goes out of
\* stock only by the free text of an admin awaiting that key; and the free text of an admin awaiting `key` that
\* is a calendar date sets exactly that key to [in_stock FALSE, eta the text],
\* keeps every other entry, writes the file (the overlay is in it unless the
\* write raised) and clears awaiting_eta_key.
C8_ToggleAsksDateThenSets ==
    [][ /\ \A u \in Users, i \in DOMAIN Cat("c1").items :
            LET key == <<"cat", "c1", str_(i - 1)>> IN
            (user_data[u].awaiting_eta_key = key /\ stock_get(STOCK_CACHE, key).in_stock)
               => CategoryKeyboard(STOCK_CACHE, "c1")[i].cb = <<"add", "c1", str_(i - 1)>>
        /\ \A key \in Keys :
            (/\ last'.h = "admin_toggle" /\ last'.u \in AdminSet
             /\ last'.arg = <<"admin_toggle">> \o key
             /\ stock_get(STOCK_CACHE, key).in_stock) =>
               /\ user_data'[last'.u].awaiting_eta_key = key
               /\ STOCK_CACHE' = STOCK_CACHE
               /\ stock_file' = stock_file
        /\ \A key \in Keys :
            (stock_get(STOCK_CACHE, key).in_stock /\ ~stock_get(STOCK_CACHE', key).in_stock) =>
               /\ last'.h = "text" /\ last'.u \in AdminSet
               /\ last'.text \in GoodDates
               /\ user_data[last'.u].awaiting_eta_key = key
        /\ \A u \in Users \cap AdminSet :
            (/\ last'.h = "text" /\ last'.u = u /\ last'.text \in GoodDates
             /\ user_data[u].awaiting_eta_key # NoKey) =>
               LET key == user_data[u].awaiting_eta_key IN
               /\ STOCK_CACHE'[key] = [in_stock |-> FALSE, eta |-> last'.text]
               /\ OthersKept(key)
               /\ Flushed(last')
               /\ user_data'[u].awaiting_eta_key = NoKey ]_vars

\* a date has just made a leaf unavailable while another entry exists
C8_Witness ==
    /\ last.h = "text" /\ last.out = "eta_set" /\ last.wrote = "ok"
    /\ last.arg = <<"cat", "c1", "0">>
    /\ Cardinality(DOMAIN STOCK_CACHE) = 2
    /\ ~STOCK_CACHE[<<"cat", "c1", "0">>].in_stock

\* C9 (checked under SpecEta): the free text of an admin awaiting a key that is
\* no calendar date gets the format error and changes nothing: the pending
\* key, the overlay, the dirty flag and the file stay, and no write is tried.
C9_BadDateChangesNothing ==
    [][ \A u \in Users \cap AdminSet :
          (/\ last'.h = "text" /\ last'.u = u /\ last'.text \in BadDates
           /\ user_data[u].awaiting_eta_key # NoKey) =>
             /\ last'.out = "format_error"
             /\ last'.wrote = "none"
             /\ user_data' = user_data
             /\ STOCK_CACHE' = STOCK_CACHE
             /\ STOCK_DIRTY' = STOCK_DIRTY
             /\ stock_file' = stock_file ]_vars

\* 2026-02-30 was rejected and the admin is still awaiting the key
C9_Witness ==
    /\ last.h = "text" /\ last.out = "format_error"
    /\ last.text = Ymd(2026, 2, 30)
    /\ user_data[last.u].awaiting_eta_key # NoKey

\* C10 (checked under SpecEta): an admin's toggle of a leaf that is out of
\* stock sets its entry to [in_stock TRUE, eta None] in that step, keeps every
\* other entry, writes the file (the overlay is in it unless the write raised)
\* and sets no pending marker: user_data is as before.
C10_ToggleBackIsImmediate ==
    [][ \A key \in Keys :
          (/\ last'.h = "admin_toggle" /\ last'.u \in AdminSet
           /\ last'.arg = <<"admin_toggle">> \o key
           /\ ~stock_get(STOCK_CACHE, key).in_stock) =>
             /\ STOCK_CACHE'[key] = [in_stock |-> TRUE, eta |-> None]
             /\ OthersKept(key)
             /\ Flushed(last')
             /\ user_data' = user_data ]_vars

\* a leaf marked unavailable has just been toggled back
C10_Witness ==
    /\ last.h = "admin_toggle" /\ last.out = "now_available" /\ last.wrote = "ok"
    /\ \E k \in DOMAIN STOCK_CACHE :
          /\ last.arg = <<"admin_toggle">> \o k
          /\ STOCK_CACHE[k] = [in_stock |-> TRUE, eta |-> None]
    /\ stock_file = File(STOCK_CACHE)

\* the menus of the catalog that list leaves, and the keyboard each shows
\* under an overlay
LeafMenus == { <<"category", "c1">>, <<"brand", "c2", "b1">>,
               <<"flavors", "c2", "b1", "1">>, <<"nic", "c2", "b2", "0">> }
Keyboard(cache, d) ==
    CASE d[1] = "category" -> CategoryKeyboard(cache, d[2])
      [] d[1] = "brand" -> BrandKeyboard(cache, d[2], d[3])
      [] d[1] = "flavors" -> FlavorsKeyboard(cache, d[2], d[3], d[4])
      [] d[1] = "nic" -> NicotineKeyboard(cache, d[2], d[3], d[4])

\* the button of leaf `key` is the same under overlays c and c0, in every menu
SameLeaf(c, c0, key) ==
    \A d \in LeafMenus : \A i \in DOMAIN Children(d) :
        LeafKey(d, i) = key => Keyboard(c, d)[i] = Keyboard(c0, d)[i]

SameOthers(c, c0, key) ==
    \A k \in Keys : k # key => stock_get(c, k) = stock_get(c0, k)

\* C11 (checked under SpecNav): the overlay round trip.  From every reachable
\* overlay in which a leaf is in stock, marking the leaf unavailable with a
\* date and marking it available again gives an overlay under which every menu
\* shows the leaf's button as before (label, add token, no ETA) and every other
\* key reads as before; the two steps of the program are exactly these two
\* stock_set calls on the same key, and right after the toggle back the leaf is
\* shown as it is under the empty overlay the program starts with.
C11_RoundTripRestoresRendering ==
    [][ /\ \A key \in NavKeys, date \in GoodDates :
            stock_get(STOCK_CACHE, key).in_stock =>
               LET gone == stock_set(STOCK_CACHE, key, FALSE, date)
                   back == stock_set(gone, key, TRUE, None)
               IN /\ ~SameLeaf(gone, STOCK_CACHE, key)
                  /\ SameLeaf(back, STOCK_CACHE, key)
                  /\ SameOthers(gone, STOCK_CACHE, key)
                  /\ SameOthers(back, STOCK_CACHE, key)
        /\ (last'.h = "text" /\ last'.out = "eta_set") =>
               /\ user_data[last'.u].awaiting_eta_key = last'.arg
               /\ STOCK_CACHE' = stock_set(STOCK_CACHE, last'.arg, FALSE, last'.text)
        /\ \A key \in NavKeys :
            (/\ last'.h = "admin_toggle" /\ last'.out = "now_available"
             /\ last'.arg = <<"admin_toggle">> \o key) =>
               /\ ~stock_get(STOCK_CACHE, key).in_stock
               /\ STOCK_CACHE' = stock_set(STOCK_CACHE, key, TRUE, None)
               /\ SameLeaf(STOCK_CACHE', EmptyCache, key)
               /\ ~SameLeaf(STOCK_CACHE, EmptyCache, key)
               /\ SameOthers(STOCK_CACHE', STOCK_CACHE, key) ]_vars

\* a nested flavour marked unavailable with a date has just been toggled back
\* while another leaf stays unavailable
C11_Witness ==
    /\ last.h = "admin_toggle" /\ last.out = "now_available"
    /\ last.arg = <<"admin_toggle", "flv", "c2", "b1", "1", "0">>
    /\ STOCK_CACHE[<<"flv", "c2", "b1", "1", "0">>].in_stock
    /\ \E k \in DOMAIN STOCK_CACHE : ~STOCK_CACHE[k].in_stock

\* the checkout coroutines of user u suspended in their fan-out
Checkouts(u, T) == { t \in BagToSet(T) : t.h = "checkout" /\ t.u = u }

\* C12 (checked under SpecOrder): a checkout tapped on a non-empty cart builds
\* its order from the cart as it is then, every line in cart order, with the
\* sum of the line prices as total; each notice it then sends is that order,
\* addressed to the next recipient; with the last notice the cart is cleared;
\* and a cart view or a checkout tapped by that user right after that finds the
\* cart empty, the checkout sending nothing and starting no fan-out.
C12_CheckoutOrdersAndClears ==
    [][ /\ (last'.h = "checkout" /\ last'.out \in {"order_built", "empty"}) =>
              LET u == last'.u
                  cart == user_data[u].cart
              IN IF cart = <<>>
                 THEN last'.out = "empty" /\ tasks' = tasks /\ last'.notices = <<>>
                 ELSE /\ last'.out = "order_built"
                      /\ \E t \in Checkouts(u, tasks') :
                            /\ CopiesIn(t, tasks') = CopiesIn(t, tasks) + 1
                            /\ t.i = 1
                            /\ t.order.lines = cart
                            /\ t.order.total = SumPrices(cart)
        /\ (last'.h = "checkout" /\ last'.out \in {"notified", "order_placed"}) =>
              /\ Len(last'.notices) = 1
              /\ \E t \in Checkouts(last'.u, tasks) :
                    /\ CopiesIn(t, tasks') = CopiesIn(t, tasks) - 1
                    /\ last'.notices[1].kind = "order"
                    /\ last'.notices[1].to = Recipients(t.order.city)[t.i]
                    /\ last'.notices[1].lines = t.order.lines
                    /\ last'.notices[1].total = t.order.total
                    /\ (last'.out = "order_placed") = (t.i = Len(Recipients(t.order.city)))
              /\ IF last'.out = "order_placed"
                 THEN user_data'[last'.u].cart = <<>>
                 ELSE user_data' = user_data
        /\ (/\ last.h = "checkout" /\ last.out = "order_placed"
            /\ last'.u = last.u /\ last'.out \in {"cart_shown", "cart_empty",
                                                   "order_built", "empty"})
              => last'.out \in {"cart_empty", "empty"} /\ last'.notices = <<>> ]_vars

\* the order for A (10.00) and B (5.50), total 15.50, has gone to the last
\* recipient and the cart is empty
C12_Witness ==
    /\ last.h = "checkout" /\ last.out = "order_placed"
    /\ last.notices[1].lines = << [name |-> <<"A">>, price |-> 10000],
                                  [name |-> <<"B">>, price |-> 5500] >>
    /\ last.notices[1].total = 15500
    /\ last.notices[1].to = 103
    /\ user_data[last.u].cart = <<>>

\* the cart line of the leaf an add token names
LineOf(parts) ==
    [name |-> resolve_item_by_key(TokenKey(parts)).title,
     price |-> resolve_item_by_key(TokenKey(parts)).price]

Resolves(parts) == resolve_item_by_key(TokenKey(parts)).price # NoPrice

\* C13 (checked under SpecAdd): an add-to-cart whose token resolves changes the
\* user's cart exactly once, in the step in which it holds the lock, and that
\* change appends the line {name, price} of the leaf: the earlier lines stay in
\* place and in order.  A cart grows by at most one line per step and only in
\* such a step.  An add of the same leaf tapped after the previous one has
\* completed, with no add in flight, appends again: the cart then ends with two
\* lines of that leaf.
C13_AddAppendsOneLine ==
    [][ /\ \A u \in Users :
            user_data'[u].cart # user_data[u].cart =>
               /\ last'.h = "add" /\ last'.u = u /\ last'.out = "appended"
               /\ Resolves(last'.arg)
               /\ user_data'[u].cart = Append(user_data[u].cart, LineOf(last'.arg))
        /\ (last'.h = "add" /\ last'.out \notin {"wait", "confirmed", "error_sent"}) =>
               (Resolves(last'.arg) <=>
                  /\ last'.out = "appended"
                  /\ user_data'[last'.u].cart # user_data[last'.u].cart)
        /\ (last'.h = "add" /\ last'.out \in {"wait", "confirmed", "error_sent"}) =>
               user_data' = user_data
        /\ (/\ last.h = "add" /\ last.out = "confirmed" /\ tasks = EmptyBag
            /\ last'.h = "add" /\ last'.u = last.u /\ last'.arg = last.arg) =>
               LET cart == user_data'[last'.u].cart IN
               /\ last'.out = "appended"
               /\ Len(cart) >= 2
               /\ cart[Len(cart)] = LineOf(last.arg)
               /\ cart[Len(cart) - 1] = LineOf(last.arg) ]_vars

\* the nested flavour was added, the add completed, and a second add of it has
\* just appended a second line
C13_Witness ==
    /\ last.h = "add" /\ last.out = "appended" /\ ~last.dup
    /\ last.arg = <<"addf", "c2", "b1", "1", "0">>
    /\ user_data[last.u].cart = << [name |-> <<"Q", "mint">>, price |-> 7000],
                                   [name |-> <<"Q", "mint">>, price |-> 7000] >>
    /\ BagCardinality(tasks) = 1

\* C14 (checked under SpecOrder): remove-one or checkout tapped on an empty
\* cart changes no session and starts nothing, sends no notice, and answers
\* with the empty-cart message over a keyboard that has the catalog button;
\* remove-one tapped on a non-empty cart drops the last line, keeps the lines
\* before it, and names the dropped line in its reply.
C14_EmptyCartRecovered ==
    [][ /\ (/\ last'.h \in {"remove_one", "checkout"}
            /\ last'.out \in {"empty", "removed", "order_built"}
            /\ user_data[last'.u].cart = <<>>) =>
               /\ last'.out = "empty"
               /\ user_data' = user_data
               /\ tasks' = tasks
               /\ last'.notices = <<>>
               /\ \E i \in DOMAIN last'.kb : last'.kb[i].cb = <<"catalog">>
        /\ (/\ last'.h = "remove_one"
            /\ last'.out \in {"empty", "removed"}
            /\ user_data[last'.u].cart # <<>>) =>
               LET cart == user_data[last'.u].cart IN
               /\ last'.out = "removed"
               /\ user_data'[last'.u].cart = SubSeq(cart, 1, Len(cart) - 1)
               /\ last'.item.title = cart[Len(cart)].name
               /\ last'.item.price = cart[Len(cart)].price
               /\ last'.notices = <<>> ]_vars

\* a checkout tapped after remove-one took the only line found the cart empty
C14_Witness ==
    /\ last.h = "checkout" /\ last.out = "empty"
    /\ user_data[last.u].cart = <<>>
    /\ last.kb = kb_main
    /\ \E t \in Running : t.h = "remove_one" /\ t.u = last.u

\* the recipients of the notices of a step whose send raised
FailedOf(step) == { step.notices[i].to : i \in { j \in DOMAIN step.notices :
                                                  ~step.notices[j].ok } }

\* C15 (checked under SpecFan): in the fan-out of a checkout every step is one
\* attempt to the next recipient of the list, and whether it returned or
\* raised the fan-out moves on to the recipient after it (none is tried twice,
\* none is skipped) and ends, after the last one, with the cart cleared and
\* the confirmation to the customer; while a checkout is in its fan-out, the
\* send it is suspended on can return and can raise.  The free text of a
\* reservation makes one attempt per admin, in order, clears reserve_key and
\* confirms to the customer, and this for every set of admins whose send raises.
C15_FanOutIsBestEffort ==
    [][ /\ \A t \in Running : t.h = "checkout" =>
              /\ ENABLED (checkout_send(t) /\ last'.notices[1].ok)
              /\ ENABLED (checkout_send(t) /\ ~last'.notices[1].ok)
        /\ (last'.h = "checkout" /\ last'.out \notin {"order_built", "empty"}) =>
              \E t \in Checkouts(last'.u, tasks) :
                 LET R == Recipients(t.order.city) IN
                 /\ CopiesIn(t, tasks') = CopiesIn(t, tasks) - 1
                 /\ Len(last'.notices) = 1
                 /\ last'.notices[1].to = R[t.i]
                 /\ IF t.i < Len(R)
                    THEN /\ last'.out = "notified"
                         /\ CopiesIn([t EXCEPT !.i = t.i + 1], tasks')
                               = CopiesIn([t EXCEPT !.i = t.i + 1], tasks) + 1
                         /\ user_data' = user_data
                    ELSE /\ last'.out = "order_placed"
                         /\ user_data'[t.u].cart = <<>>
        /\ \A u \in Users, text \in FanTexts, F \in SUBSET AdminSet :
              (user_data[u].reserve_key # NoKey /\ user_data[u].awaiting_eta_key = NoKey) =>
                 ENABLED (text_router(u, text, Healthy) /\ FailedOf(last') = F)
        /\ \A u \in Users :
              (/\ user_data[u].reserve_key # NoKey /\ user_data[u].awaiting_eta_key = NoKey
               /\ last'.h = "text" /\ last'.u = u) =>
                 /\ last'.out = "reserved"
                 /\ Len(last'.notices) = Len(ADMIN_IDS)
                 /\ \A i \in DOMAIN ADMIN_IDS : last'.notices[i].to = ADMIN_IDS[i]
                 /\ user_data'[u].reserve_key = NoKey ]_vars

\* the send to the courier, the last recipient, raised; the order is placed
\* and the cart is cleared
C15_Witness ==
    /\ last.h = "checkout" /\ last.out = "order_placed"
    /\ ~last.notices[1].ok
    /\ last.notices[1].to = get_courier_chat_id(last.notices[1].city)
    /\ last.notices[1].lines # <<>>
    /\ user_data[last.u].cart = <<>>

\* C16 (checked under SpecNav): no navigation step ends in an uncaught fault:
\* a category, brand, nested-flavour or nicotine-block token that names
\* something the catalog does not have is answered with a message to the user
\* (outcome "not_found", "error" or "no_flavors"), never left to the error handler.
C16_BadTokenGetsMessage ==
    last.h \in {"category", "brand", "flavors", "nic"} => last.out # "fault"

\* C17 (checked under SpecStale): what an add-to-cart does to the cart is
\* decided by the cart and the token alone, whatever the overlay holds: the
\* step that takes the lock appends the token's line, and leaves the overlay
\* as it is.  In particular, while the overlay marks a leaf out of stock (the
\* category menu shows its reserve token), an add token of that leaf tapped
\* with the lock free and room in the cart can be taken and appends the line.
C17_AddIgnoresOverlay ==
    [][ /\ (last'.h = "add" /\ last'.out \in {"appended", "failed"}) =>
              /\ user_data'[last'.u].cart =
                    IF Resolves(last'.arg)
                    THEN Append(user_data[last'.u].cart, LineOf(last'.arg))
                    ELSE user_data[last'.u].cart
              /\ STOCK_CACHE' = STOCK_CACHE
        /\ \A u \in Customers, parts \in OrderTokens :
              (/\ ~stock_get(STOCK_CACHE, TokenKey(parts)).in_stock
               /\ ~Locked(u) /\ CanSuspend
               /\ Len(user_data[u].cart) < MaxCart) =>
                 /\ CategoryKeyboard(STOCK_CACHE, parts[2])[int_(parts[3]) + 1].cb
                       = <<"reserve">> \o TokenKey(parts)
                 /\ ENABLED (/\ add_to_cart_handler(u, parts)
                             /\ last'.out = "appended"
                             /\ user_data'[u].cart
                                  = Append(user_data[u].cart, LineOf(parts))) ]_vars

\* leaf A is marked out of stock with a date, and the add token of A has just
\* appended its line
C17_Witness ==
    /\ last.h = "add" /\ last.out = "appended"
    /\ last.arg = <<"add", "c1", "0">>
    /\ <<"cat", "c1", "0">> \in DOMAIN STOCK_CACHE
    /\ STOCK_CACHE[<<"cat", "c1", "0">>] = [in_stock |-> FALSE, eta |-> Ymd(2026, 1, 20)]
    /\ user_data[last.u].cart = << [name |-> <<"A">>, price |-> 10000] >>

\* C18 (checked under SpecLive): an add-to-cart that arrives while the user's
\* lock is held gets the "wait" answer and stays as a waiting request; a
\* waiting request leaves only by taking the lock; the holder's reply, whether
\* the confirmation or the error message, releases the lock; and, every send
\* returning, each waiting request takes the lock and the lock is free again
\* after it.
C18_WaitingAddCompletes ==
    /\ [][ /\ \A u \in Customers, parts \in LiveTokens :
                (/\ Locked(u) /\ last'.h = "add" /\ last'.u = u /\ last'.arg = parts
                 /\ last'.out \notin {"confirmed", "error_sent"}) =>
                   /\ last'.out = "wait"
                   /\ \E t \in Waiters(u)' : t.arg = parts /\ t \notin Waiters(u)
                   /\ user_data' = user_data
           /\ \A u \in Customers : \A t \in Waiters(u) :
                CopiesIn(t, tasks') < CopiesIn(t, tasks) =>
                   /\ last'.h = "add" /\ last'.u = u /\ last'.arg = t.arg
                   /\ last'.out \in {"appended", "failed"}
                   /\ ~Locked(u) /\ Locked(u)'
           /\ (last'.h = "add" /\ last'.out \in {"confirmed", "error_sent"}) =>
                USER_LOCKS'[last'.u] = "unlocked" ]_vars
    /\ \A u \in Customers, parts \in LiveTokens :
          (\E t \in Waiters(u) : t.arg = parts) ~> (\A t \in Waiters(u) : t.arg # parts)
    /\ \A u \in Customers : Locked(u) ~> ~Locked(u)

\* a request that had to wait behind an add of the same leaf has taken the
\* lock, and no request is waiting
C18_Witness ==
    /\ last.h = "add" /\ last.out = "appended" /\ last.dup
    /\ Locked(last.u)
    /\ Waiters(last.u) = {}
    /\ Len(user_data[last.u].cart) = 2

\* the adds of user u that hold u's lock, suspended on their reply
Holders(u) == { t \in Running : t.h = "add" /\ t.u = u /\ t.pc \in {"confirm", "error"} }

C20_SessionsAreIsolated ==
    [][ \A b \in Users : last'.u # b => user_data'[b] = user_data[b] ]_vars

\* user 1's checkout has cleared user 1's cart while user 3 has a city, a
\* pending reservation and a line in the cart
C20_Witness ==
    /\ last.h = "checkout" /\ last.u = 1 /\ last.out = "order_placed"
    /\ user_data[1].cart = <<>>
    /\ user_data[3].cart # <<>>
    /\ user_data[3].city = Words("Leipzig")
    /\ user_data[3].reserve_key = <<"cat", "c1", "0">>

\* C21 (checked under Spec): a free text of a user whose session holds no
\* pending marker changes nothing (no session, not the overlay, its dirty flag
\* or the file), is answered with no message and sends no notice.
C21_TextWithoutModeIsNoOp ==
    [][ (last'.h = "text" /\ Pending(last'.u) = {}) =>
           /\ last'.out = "nothing"
           /\ last'.notices = <<>>
           /\ last'.kb = <<>>
           /\ last'.wrote = "none"
           /\ user_data' = user_data
           /\ STOCK_CACHE' = STOCK_CACHE
           /\ STOCK_DIRTY' = STOCK_DIRTY
           /\ stock_file' = stock_file ]_vars

\* a customer with a city and no pending marker has sent a text while the
\* overlay has an entry
C21_Witness ==
    /\ last.h = "text" /\ last.out = "nothing"
    /\ last.u \in Customers
    /\ user_data[last.u].city # None
    /\ Pending(last.u) = {}
    /\ STOCK_CACHE # EmptyCache

\* the file holds the overlay (or there is no file yet and the overlay is empty)
Synced ==
    \/ stock_file = File(STOCK_CACHE)
    \/ stock_file.state = "missing" /\ STOCK_CACHE = EmptyCache

\* C22 (checked under SpecEta, where a write may raise): between steps, that
\* is whenever handlers are suspended at a send or have finished, a lowered
\* dirty flag means the file holds the overlay; a step that changes the
\* overlay attempts the write in that same step; and the flag is up after a
\* step only if a write has raised and none has succeeded since.
C22_OverlayIsFlushed ==
    [][ /\ ~STOCK_DIRTY => Synced
        /\ ~STOCK_DIRTY' => Synced'
        /\ STOCK_CACHE' # STOCK_CACHE => last'.wrote \in {"ok", "fail"}
        /\ last'.wrote = "ok" => ~STOCK_DIRTY'
        /\ (STOCK_DIRTY' /\ ~STOCK_DIRTY) => last'.wrote = "fail"
        /\ (STOCK_DIRTY' /\ STOCK_DIRTY) => last'.wrote \in {"fail", "none"} ]_vars

\* the second change of the overlay was written: the flag is down and the
\* file holds both entries, one of them out of stock
C22_Witness ==
    /\ last.wrote = "ok"
    /\ ~STOCK_DIRTY
    /\ stock_file = File(STOCK_CACHE)
    /\ Cardinality(DOMAIN STOCK_CACHE) = 2
    /\ \E k \in DOMAIN STOCK_CACHE : ~STOCK_CACHE[k].in_stock
\* C23 (checked under SpecTwo): the store is written only when the overlay
\* changed since the last flush.  No step of a customer writes the store or
\* touches the file, and no step writes the store when the overlay it would
\* write is the content the file already holds.
C23_WritesOnlyChanges ==
    [][ /\ last'.u \notin AdminSet =>
              (last'.wrote = "none" /\ stock_file' = stock_file)
        /\ (stock_file.state = "ok" /\ STOCK_CACHE' = stock_file.data) =>
              last'.wrote = "none" ]_vars

\* C24 (checked under SpecBoot): the store is replaced atomically.  Whatever
\* happens to a write, the file a reader finds afterwards is the complete
\* content from before the write or the complete overlay being written.
C24_AtomicReplace ==
    [][ last'.wrote \in {"ok", "fail"} =>
            stock_file' \in {stock_file, File(STOCK_CACHE')} ]_vars

\* C25 (checked under SpecBoot): an absent entry reads as in stock with no ETA;
\* after a start on a store that is missing, unparsable or not a mapping the
\* process is up with an empty overlay; and a menu rendered under the empty
\* overlay shows every leaf with its add token (a brand item with flavours
\* with the token that opens them) and no ETA.
C25_MissingMeansAvailable ==
    /\ \A k \in Keys : k \notin DOMAIN STOCK_CACHE =>
           stock_get(STOCK_CACHE, k) = [in_stock |-> TRUE, eta |-> None]
    /\ last.h \in {"init", "main"} =>
           /\ last.out = "started"
           /\ stock_file.state # "ok" => STOCK_CACHE = EmptyCache
    /\ ( /\ last.h \in {"category", "brand", "flavors", "nic"}
         /\ last.out = "menu"
         /\ STOCK_CACHE = EmptyCache ) =>
           \A i \in DOMAIN Children(last.arg) :
              /\ last.kb[i].eta = None
              /\ last.kb[i].cb =
                    IF last.arg[1] = "brand" /\ HasFlavors(Children(last.arg)[i])
                    THEN <<"flavors", last.arg[2], last.arg[3], str_(i - 1)>>
                    ELSE LeafAdd(last.arg, i)

\* started on a store that is not a mapping, the customer opened the flat
\* category and was offered both leaves
C25_Witness ==
    /\ stock_file.state = "list"
    /\ STOCK_CACHE = EmptyCache
    /\ last.h = "category" /\ last.out = "menu"
    /\ last.kb[1].cb = <<"add", "c1", "0">>
    /\ last.kb[2].cb = <<"add", "c1", "1">>

\* the admin walk shows a list with the toggle of key k
Offered(k) ==
    \E a \in AdminSet \cap Actors :
        ENABLED ( /\ AdminWalk(a, WalkData)
                  /\ last'.out = "menu"
                  /\ \E j \in DOMAIN last'.kb : last'.kb[j].cb = <<"admin_toggle">> \o k )

\* the data of the walk are the buttons the walk itself shows
WalkClosed ==
    \A d \in WalkData : \E a \in AdminSet \cap Actors :
        ENABLED ( /\ AdminWalk(a, WalkData)
                  /\ last'.out = "menu"
                  /\ \E j \in DOMAIN last'.kb : last'.kb[j].cb = d )

\* C26 (checked under SpecWalk): the admin walk mirrors the customer's
\* navigation.  Whenever a customer is shown a menu of leaves, the overlay key
\* read for each of its buttons is a key whose toggle the walk admin ->
\* admin_cat -> admin_brand -> admin_block shows on one of its lists, and the
\* admin can tap that toggle (while the overlay has room for the entry).
C26_WalkReachesEveryKey ==
    /\ WalkClosed
    /\ ( /\ last.h \in {"category", "brand", "flavors", "nic"}
         /\ last.out = "menu" ) =>
           \A i \in DOMAIN Children(last.arg) :
               /\ Offered(LeafKey(last.arg, i))
               /\ Cardinality(DOMAIN STOCK_CACHE \cup {LeafKey(last.arg, i)}) <= MaxStock =>
                     \E a \in AdminSet \cap Actors :
                        ENABLED admin_toggle(a, LeafKey(last.arg, i), Healthy)

\* C27 (checked under SpecAdd): the total a cart view shows is the sum of the
\* prices of all the cart's lines, rounded to two decimals once, after the
\* summation (prices are in thousandths: lines of 1.005 and 1.005 show 2.01).
C27_TotalRoundedOnce ==
    [][ (last'.h = "cart" /\ last'.out = "cart_shown") =>
          /\ last'.notices[1].lines = user_data'[last'.u].cart
          /\ last'.notices[1].total = Round2(SumPrices(user_data'[last'.u].cart)) ]_vars

\* the cart with two lines of 1.005 was shown with the total 2.01, where
\* rounding each line first would have given 2.00
C27_Witness ==
    /\ last.h = "cart" /\ last.out = "cart_shown"
    /\ last.notices[1].lines = << [name |-> <<"P">>, price |-> 1005],
                                  [name |-> <<"P">>, price |-> 1005] >>
    /\ last.notices[1].total = 2010
    /\ SumRounded(last.notices[1].lines) = 2000

C30_FailedAddIsClean ==
    [][ /\ (last'.h = "add" /\ last'.out \in {"appended", "failed"}) =>
              /\ (last'.out = "failed") = ~Resolves(last'.arg)
              /\ last'.out = "failed" =>
                    /\ user_data' = user_data
                    /\ last'.notices = <<>>
                    /\ \E t \in Running' : /\ t.h = "add" /\ t.u = last'.u
                                           /\ t.arg = last'.arg /\ t.pc = "error"
        /\ (last'.h = "add" /\ last'.out \in {"confirmed", "error_sent"}) =>
              /\ (last'.out = "error_sent") = ~Resolves(last'.arg)
              /\ user_data' = user_data
              /\ USER_LOCKS'[last'.u] = "unlocked"
              /\ \E t \in Running :
                    /\ t.h = "add" /\ t.u = last'.u /\ t.arg = last'.arg
                    /\ t.pc = (IF last'.out = "error_sent" THEN "error" ELSE "confirm")
                    /\ CopiesIn(t, tasks') = CopiesIn(t, tasks) - 1 ]_vars

\* with one line in the cart, an add of a flavour index the block does not
\* have has ended in its error message: the line is still the cart and the
\* lock is free
C30_Witness ==
    /\ last.h = "add" /\ last.out = "error_sent"
    /\ last.arg = <<"addn", "c2", "b2", "0", "7">>
    /\ user_data[last.u].cart = << [name |-> <<"P">>, price |-> 1005] >>
    /\ USER_LOCKS[last.u] = "unlocked"
    /\ tasks = EmptyBag

\* an overlay entry is well formed: in stock with no ETA, or out of stock with
\* an ETA that is a date of the calendar
WellFormed(entry) ==
    IF entry.in_stock THEN entry.eta = None ELSE entry.eta \in GoodDates

\* C31 (checked under SpecEta): from the empty overlay, whatever the admin
\* toggles and whatever texts are sent, every entry of the overlay is well
\* formed after every step, and a key that has an entry keeps one.
C31_EntriesWellFormed ==
    [][ /\ \A k \in DOMAIN STOCK_CACHE' : WellFormed(STOCK_CACHE'[k])
        /\ DOMAIN STOCK_CACHE \subseteq DOMAIN STOCK_CACHE' ]_vars

\* a leaf dated and toggled back holds an entry in stock without ETA, beside an
\* entry out of stock with its date, after a text that is no date was refused
C31_Witness ==
    /\ last.h = "text" /\ last.out = "format_error"
    /\ \E k \in DOMAIN STOCK_CACHE :
          STOCK_CACHE[k].in_stock /\ STOCK_CACHE[k].eta = None
    /\ \E k \in DOMAIN STOCK_CACHE :
          ~STOCK_CACHE[k].in_stock /\ STOCK_CACHE[k].eta = Ymd(2026, 1, 20)

====
